---- MODULE Spec2Model ----
(***************************************************************************)
(* Release matching and reconciliation engine of gamerr (app/services.py,  *)
(* app/jobs.py, app/routes.py): the store (Game, AlternativeRelease,       *)
(* AdditionalRelease), the unified engine process_all_releases_for_game,   *)
(* the immediate-check queue and the handlers that trigger it.             *)
(***************************************************************************)
EXTENDS Integers, Sequences, FiniteSets, Bags, TLC

(***************************************************************************)
(* Strings.  A Python str is modelled as the sequence of its characters;   *)
(* Text maps every string of the model's universe to that sequence, so the *)
(* store and the feed hold readable names while the string functions work  *)
(* character by character, as the code does.                               *)
(***************************************************************************)
Text ==
    "Dragon Quest II" :>
      <<"D","r","a","g","o","n"," ","Q","u","e","s","t"," ","I","I">> @@
    "Dragon Quest" :>
      <<"D","r","a","g","o","n"," ","Q","u","e","s","t">> @@
    "Dragon Quest II Definitive Edition-GROUP" :>
      <<"D","r","a","g","o","n"," ","Q","u","e","s","t"," ","I","I"," ","D","e","f","i","n","i","t","i","v","e"," ","E","d","i","t","i","o","n","-","G","R","O","U","P">> @@
    "Dragon Quest III Remake-GROUP" :>
      <<"D","r","a","g","o","n"," ","Q","u","e","s","t"," ","I","I","I"," ","R","e","m","a","k","e","-","G","R","O","U","P">> @@
    "Dragon.Quest.II.UPDATE.v1.2-GROUP" :>
      <<"D","r","a","g","o","n",".","Q","u","e","s","t",".","I","I",".","U","P","D","A","T","E",".","v","1",".","2","-","G","R","O","U","P">> @@
    "Dragon.Quest.II-EARLY" :>
      <<"D","r","a","g","o","n",".","Q","u","e","s","t",".","I","I","-","E","A","R","L","Y">> @@
    "Dragon.Quest.II.A&amp;B-P2P" :>
      <<"D","r","a","g","o","n",".","Q","u","e","s","t",".","I","I",".","A","&","a","m","p",";","B","-","P","2","P">> @@
    "Dragon.Quest.II.A&B-P2P" :>
      <<"D","r","a","g","o","n",".","Q","u","e","s","t",".","I","I",".","A","&","B","-","P","2","P">> @@
    "Dragon Quest II Repack" :>
      <<"D","r","a","g","o","n"," ","Q","u","e","s","t"," ","I","I"," ","R","e","p","a","c","k">> @@
    "Dragon.Quest.II.NSW-VENOM" :>
      <<"D","r","a","g","o","n",".","Q","u","e","s","t",".","I","I",".","N","S","W","-","V","E","N","O","M">> @@
    "Dragon.Quest.II.C&amp;D.DLC-GRP" :>
      <<"D","r","a","g","o","n",".","Q","u","e","s","t",".","I","I",".","C","&","a","m","p",";","D",".","D","L","C","-","G","R","P">> @@
    "Dragon.Quest.II.C&D.DLC-GRP" :>
      <<"D","r","a","g","o","n",".","Q","u","e","s","t",".","I","I",".","C","&","D",".","D","L","C","-","G","R","P">> @@
    "BDRIP" :>
      <<"B","D","R","I","P">> @@
    "BLURAY" :>
      <<"B","L","U","R","A","Y">> @@
    "HDTV" :>
      <<"H","D","T","V">> @@
    "X264" :>
      <<"X","2","6","4">> @@
    "X265" :>
      <<"X","2","6","5">> @@
    "DTSHD" :>
      <<"D","T","S","H","D">> @@
    "DVDRIP" :>
      <<"D","V","D","R","I","P">> @@
    "MACOS" :>
      <<"M","A","C","O","S">> @@
    "LINUX" :>
      <<"L","I","N","U","X">> @@
    "NSW" :>
      <<"N","S","W">> @@
    "PS4" :>
      <<"P","S","4">> @@
    "PS5" :>
      <<"P","S","5">> @@
    "XBOX" :>
      <<"X","B","O","X">> @@
    "WII" :>
      <<"W","I","I">> @@
    "NGC" :>
      <<"N","G","C">> @@
    "PS2DVD" :>
      <<"P","S","2","D","V","D">> @@
    "UPDATE" :>
      <<"U","P","D","A","T","E">> @@
    "DLC" :>
      <<"D","L","C">> @@
    "PATCH" :>
      <<"P","A","T","C","H">> @@
    "CRACKFIX" :>
      <<"C","R","A","C","K","F","I","X">> @@
    "FIX" :>
      <<"F","I","X">> @@
    "TRAINER" :>
      <<"T","R","A","I","N","E","R">> @@
    "FITGIRL" :>
      <<"F","I","T","G","I","R","L">> @@
    "DODI" :>
      <<"D","O","D","I">> @@
    "ELAMIGOS" :>
      <<"E","L","A","M","I","G","O","S">> @@
    "KAOSKREW" :>
      <<"K","A","O","S","K","R","E","W">> @@
    "MASQUERADE" :>
      <<"M","A","S","Q","U","E","R","A","D","E">> @@
    "II" :>
      <<"I","I">> @@
    "III" :>
      <<"I","I","I">> @@
    "IV" :>
      <<"I","V">> @@
    "V" :>
      <<"V">> @@
    "VI" :>
      <<"V","I">> @@
    "VII" :>
      <<"V","I","I">> @@
    "VIII" :>
      <<"V","I","I","I">> @@
    "IX" :>
      <<"I","X">> @@
    "X" :>
      <<"X">> @@
    "repack" :>
      <<"r","e","p","a","c","k">> @@
    "multi" :>
      <<"m","u","l","t","i">> @@
    "multilingual" :>
      <<"m","u","l","t","i","l","i","n","g","u","a","l">> @@
    "campaign" :>
      <<"c","a","m","p","a","i","g","n">> @@
    "kampagne" :>
      <<"k","a","m","p","a","g","n","e">> @@
    "complete" :>
      <<"c","o","m","p","l","e","t","e">> @@
    "edition" :>
      <<"e","d","i","t","i","o","n">> @@
    "goty" :>
      <<"g","o","t","y">> @@
    "deluxe" :>
      <<"d","e","l","u","x","e">> @@
    "ultimate" :>
      <<"u","l","t","i","m","a","t","e">> @@
    "directors" :>
      <<"d","i","r","e","c","t","o","r","s">> @@
    "cut" :>
      <<"c","u","t">> @@
    "enhanced" :>
      <<"e","n","h","a","n","c","e","d">> @@
    "definitive" :>
      <<"d","e","f","i","n","i","t","i","v","e">> @@
    "special" :>
      <<"s","p","e","c","i","a","l">> @@
    "collectors" :>
      <<"c","o","l","l","e","c","t","o","r","s">> @@
    "2022" :>
      <<"2","0","2","2">> @@
    "2023" :>
      <<"2","0","2","3">> @@
    "2024" :>
      <<"2","0","2","4">> @@
    "2025" :>
      <<"2","0","2","5">> @@
    "multi2" :>
      <<"m","u","l","t","i","2">> @@
    "multi8" :>
      <<"m","u","l","t","i","8">> @@
    "multi4" :>
      <<"m","u","l","t","i","4">> @@
    "xx" :>
      <<"x","x">> @@
    "x" :>
      <<"x">> @@
    "GROUP" :>
      <<"G","R","O","U","P">> @@
    "EARLY" :>
      <<"E","A","R","L","Y">> @@
    "Scene" :>
      <<"S","c","e","n","e">> @@
    "P2P" :>
      <<"P","2","P">> @@
    "FitGirl" :>
      <<"F","i","t","G","i","r","l">> @@
    "VENOM" :>
      <<"V","E","N","O","M">> @@
    "GRP" :>
      <<"G","R","P">> @@
    "Dragon.Quest.II-RUNE" :>
      <<"D","r","a","g","o","n",".","Q","u","e","s","t",".","I","I","-","R","U","N","E">> @@
    "RUNE" :>
      <<"R","U","N","E">> @@
    "Dragon.Quest.II.FIX-GROUP" :>
      <<"D","r","a","g","o","n",".","Q","u","e","s","t",".","I","I",".","F","I","X","-","G","R","O","U","P">> @@
    "Dragon.Quest.II.DLC.WII-GRP" :>
      <<"D","r","a","g","o","n",".","Q","u","e","s","t",".","I","I",".","D","L","C",".","W","I","I","-","G","R","P">> @@
    "DLC.Dragon.Quest.II-GRP" :>
      <<"D","L","C",".","D","r","a","g","o","n",".","Q","u","e","s","t",".","I","I","-","G","R","P">> @@
    "Dragon.Quest.II.UPDATE.BDRIP-GRP" :>
      <<"D","r","a","g","o","n",".","Q","u","e","s","t",".","I","I",".","U","P","D","A","T","E",".","B","D","R","I","P","-","G","R","P">> @@
    "Dragon.Quest.II.Masquerade-RUNE" :>
      <<"D","r","a","g","o","n",".","Q","u","e","s","t",".","I","I",".","M","a","s","q","u","e","r","a","d","e","-","R","U","N","E">>

Strings == DOMAIN Text

\* The name of the universe with the given characters (the inverse of Text).
StrOf(cs) == CHOOSE n \in Strings : Text[n] = cs

UpperChars == <<"A","B","C","D","E","F","G","H","I","J","K","L","M",
                "N","O","P","Q","R","S","T","U","V","W","X","Y","Z">>
LowerChars == <<"a","b","c","d","e","f","g","h","i","j","k","l","m",
                "n","o","p","q","r","s","t","u","v","w","x","y","z">>
DigitChars == {"0","1","2","3","4","5","6","7","8","9"}
Letters == {UpperChars[i] : i \in 1..26} \cup {LowerChars[i] : i \in 1..26}
\* \w of Python's re for the characters of the universe.
WordChars == Letters \cup DigitChars \cup {"_"}

\* str.upper() and str.lower(), one character.
upper_char(c) ==
    IF \E i \in 1..26 : LowerChars[i] = c
    THEN UpperChars[CHOOSE i \in 1..26 : LowerChars[i] = c] ELSE c
lower_char(c) ==
    IF \E i \in 1..26 : UpperChars[i] = c
    THEN LowerChars[CHOOSE i \in 1..26 : UpperChars[i] = c] ELSE c
str_upper(s) == [i \in 1..Len(s) |-> upper_char(s[i])]
str_lower(s) == [i \in 1..Len(s) |-> lower_char(s[i])]

\* s.replace(c, ' ') for every c of cs, and re.sub(r'[cs]', ' ', s).
to_space(s, cs) == [i \in 1..Len(s) |-> IF s[i] \in cs THEN " " ELSE s[i]]
\* re.sub(r'[^\w\s]', '', s)
strip_punct(s) == SelectSeq(s, LAMBDA c : c \in WordChars \cup {" "})

\* str.split(): the maximal runs of non-space characters, in order.
RECURSIVE SplitFrom(_, _, _, _)
SplitFrom(s, i, cur, acc) ==
    IF i > Len(s) THEN (IF cur = <<>> THEN acc ELSE Append(acc, cur))
    ELSE IF s[i] = " "
         THEN SplitFrom(s, i + 1, <<>>, IF cur = <<>> THEN acc ELSE Append(acc, cur))
         ELSE SplitFrom(s, i + 1, Append(cur, s[i]), acc)
split(s) == SplitFrom(s, 1, <<>>, <<>>)
\* set(tokens)
set_of(toks) == {toks[i] : i \in 1..Len(toks)}
words(s) == set_of(split(s))

\* ' '.join(tokens): what re.sub(r'\s+', ' ', s).strip() leaves of s.
RECURSIVE join(_)
join(toks) ==
    IF toks = <<>> THEN <<>>
    ELSE IF Len(toks) = 1 THEN toks[1]
    ELSE toks[1] \o <<" ">> \o join(Tail(toks))

\* needle in hay
contains(hay, needle) ==
    \E i \in 0..(Len(hay) - Len(needle)) :
        \A j \in 1..Len(needle) : hay[i + j] = needle[j]
ends_with(s, suffix) ==
    /\ Len(suffix) <= Len(s)
    /\ \A j \in 1..Len(suffix) : s[Len(s) - Len(suffix) + j] = suffix[j]

\* html.unescape for the one character reference of the universe, &amp;
\* (with or without its semicolon).
RECURSIVE UnescapeFrom(_, _)
UnescapeFrom(s, i) ==
    IF i > Len(s) THEN <<>>
    ELSE IF /\ i + 3 <= Len(s)
            /\ SubSeq(s, i, i + 3) = <<"&","a","m","p">>
         THEN <<"&">> \o UnescapeFrom(s, IF i + 4 <= Len(s) /\ s[i + 4] = ";"
                                         THEN i + 5 ELSE i + 4)
         ELSE <<s[i]>> \o UnescapeFrom(s, i + 1)
html_unescape(s) == UnescapeFrom(s, 1)

(***************************************************************************)
(* Title matching (services.py, module level): used by the repack-site     *)
(* adapter check_source_fitgirl.                                           *)
(***************************************************************************)
common_words ==
    {"repack", "multi", "multilingual", "campaign", "kampagne", "complete",
     "edition", "goty", "deluxe", "ultimate", "directors", "cut", "enhanced",
     "definitive", "special", "collectors", "2022", "2023", "2024", "2025",
     "multi2", "multi8", "multi4", "xx", "x"}

\* The words of re.sub(r'[^\w\s]', '', re.sub(r'[._-]', ' ', s).lower()).
title_words(s) == words(strip_punct(str_lower(to_space(s, {".", "_", "-"}))))

\* Ten times the similarity, so that the thresholds 0.7 and 0.8 stay integers:
\* the result is overlap / len(game_words), or 0 when a word set is empty.
overlap_ratio(game_words, release_words) ==
    IF game_words = {} \/ release_words = {} THEN [num |-> 0, den |-> 1]
    ELSE [num |-> Cardinality(game_words \cap release_words),
          den |-> Cardinality(game_words)]
_calculate_title_similarity(game_title, release_name) ==
    overlap_ratio(title_words(game_title),
                  title_words(release_name) \ {Text[w] : w \in common_words})

RomanNumerals == {"II", "III", "IV", "V", "VI", "VII", "VIII", "IX", "X"}

\* The maximal runs of \w characters of s, in order: re's \b(...)\b matches a
\* numeral exactly where such a run is the numeral.
RECURSIVE WordRunsFrom(_, _, _, _)
WordRunsFrom(s, i, cur, acc) ==
    IF i > Len(s) THEN (IF cur = <<>> THEN acc ELSE Append(acc, cur))
    ELSE IF s[i] \notin WordChars
         THEN WordRunsFrom(s, i + 1, <<>>, IF cur = <<>> THEN acc ELSE Append(acc, cur))
         ELSE WordRunsFrom(s, i + 1, Append(cur, s[i]), acc)

\* re.search(r'\b(II|III|IV|V|VI|VII|VIII|IX|X)\b', s): the first numeral of
\* s as a sequence of one element, or the empty sequence for no match.
first_of(hits) == IF hits = <<>> THEN <<>> ELSE <<hits[1]>>
roman_search(s) ==
    first_of(SelectSeq(WordRunsFrom(s, 1, <<>>, <<>>),
                       LAMBDA r : \E n \in RomanNumerals : Text[n] = r))

\* min_similarity is given in tenths (7 for 0.7, 8 for 0.8).
roman_guarded(similarity, game_roman, release_roman, min_similarity) ==
    IF game_roman # <<>> /\ release_roman # <<>> /\ game_roman # release_roman
    THEN FALSE
    ELSE IF game_roman # <<>> /\ release_roman = <<>>
    THEN FALSE
    ELSE similarity.num * 10 >= min_similarity * similarity.den
_is_valid_game_match(game_title, release_name, min_similarity) ==
    roman_guarded(_calculate_title_similarity(game_title, release_name),
                  roman_search(game_title), roman_search(release_name), min_similarity)

(***************************************************************************)
(* The engine's constants and helpers (process_all_releases_for_game).     *)
(***************************************************************************)
MOVIE_KEYWORDS == {"BDRIP", "BLURAY", "HDTV", "X264", "X265", "DTSHD", "DVDRIP"}
PLATFORM_KEYWORDS == {"MACOS", "LINUX", "NSW", "PS4", "PS5", "XBOX", "WII", "NGC", "PS2DVD"}
TYPE_BLOCKED_KEYWORDS == {"UPDATE", "DLC", "PATCH", "CRACKFIX", "TRAINER"}
REPACK_GROUPS == {"FITGIRL", "DODI", "ELAMIGOS", "KAOSKREW", "MASQUERADE"}
TIER_ORDER(type) ==
    CASE type = "Scene" -> 2 [] type = "Repack" -> 1 [] type = "P2P" -> 0 [] OTHER -> 0

\* A release date is missing, unparsable by strptime('%Y-%m-%d'), or a day
\* (counted from the epoch); a timestamp is in seconds, 0 for a missing one
\* (None and 0 are both falsy, which is all the engine asks of it).
NoDate == [kind |-> "none"]
BadDate == [kind |-> "bad"]
DateOf(day) == [kind |-> "date", day |-> day]

delta_days(game_release_date, release_timestamp) ==
    (release_timestamp - game_release_date.day * 86400) \div 86400

\* A score without the lower hard reject would let a release from long
\* before the game's date through.
score_without_early_reject(game_release_date, release_timestamp) ==
    IF game_release_date.kind # "date" \/ release_timestamp = 0 THEN 0
    ELSE IF delta_days(game_release_date, release_timestamp) <= 90 THEN 200
    ELSE IF delta_days(game_release_date, release_timestamp) <= 365 THEN 150
    ELSE IF delta_days(game_release_date, release_timestamp) <= 1460 THEN 25
    ELSE -1000

\* A score whose first bucket ended a day early would take day 90 for the
\* second bucket.
score_with_short_bucket(game_release_date, release_timestamp) ==
    IF game_release_date.kind # "date" \/ release_timestamp = 0 THEN 0
    ELSE IF delta_days(game_release_date, release_timestamp) < -30 THEN -1000
    ELSE IF delta_days(game_release_date, release_timestamp) < 90 THEN 200
    ELSE IF delta_days(game_release_date, release_timestamp) <= 365 THEN 150
    ELSE IF delta_days(game_release_date, release_timestamp) <= 730 THEN 100
    ELSE IF delta_days(game_release_date, release_timestamp) <= 1095 THEN 50
    ELSE IF delta_days(game_release_date, release_timestamp) <= 1460 THEN 25
    ELSE -1000

_calculate_relevancy_score(game_release_date, release_timestamp) ==
    IF game_release_date.kind = "none" \/ release_timestamp = 0 THEN 0
    ELSE IF game_release_date.kind = "bad" THEN 0
    ELSE LET d == delta_days(game_release_date, release_timestamp)
         IN  IF d < -30 THEN -1000
             ELSE IF d <= 90 THEN 200
             ELSE IF d <= 365 THEN 150
             ELSE IF d <= 730 THEN 100
             ELSE IF d <= 1095 THEN 50
             ELSE IF d <= 1460 THEN 25
             ELSE -1000

_detect_type(release_name, original_type) ==
    IF \E rg \in REPACK_GROUPS : contains(str_upper(release_name), Text[rg])
    THEN "Repack" ELSE original_type

_simplify_text(text) ==
    join(split(strip_punct(to_space(str_lower(text), {"_", ".", ":", "-"}))))

\* The matcher the engine uses: the nested definition, which shadows the
\* module-level one inside process_all_releases_for_game.
engine_is_valid_game_match(official_title, candidate_name) ==
    contains(_simplify_text(candidate_name), _simplify_text(official_title))

\* set(clean_name.upper().replace('.', ' ').replace('_', ' ').replace('-', ' ').split())
upper_words(clean_name) == words(to_space(str_upper(clean_name), {".", "_", "-"}))

PLATFORM_EXCLUSIONS == {"NSW", "LINUX", "MACOS", "PS5", "PS4", "XBOX"}
\* type_map of parse_additional_release_info, in its iteration order.
type_map ==
    << <<"CRACKFIX", "Fix">>, <<"DLC", "DLC">>, <<"UPDATE", "Update">>,
       <<"PATCH", "Update">>, <<"FIX", "Fix">>, <<"TRAINER", "Trainer">> >>

\* The add-on type of a release name, "None" for a name that is no valid add-on.
keyword_hit(name_upper, k) ==
    \/ contains(name_upper, <<" ">> \o Text[k] \o <<" ">>)
    \/ ends_with(name_upper, <<" ">> \o Text[k])
type_of_hits(hits) == IF hits = <<>> THEN "None" ELSE hits[1][2]
typed(name_upper) ==
    IF \E p \in PLATFORM_EXCLUSIONS : Text[p] \in words(name_upper) THEN "None"
    ELSE type_of_hits(SelectSeq(type_map, LAMBDA kt : keyword_hit(name_upper, kt[1])))
parse_additional_release_info(release_name) ==
    typed(to_space(str_upper(release_name), {".", "_", "-"}))

(***************************************************************************)
(* The world outside: the metadata catalogue and what the release sources  *)
(* can return.                                                             *)
(***************************************************************************)
NumGames == 2
\* Games are named by their external catalogue id (Game.igdb_id is unique).
Games == 1..NumGames

\* get_igdb_game_details: title and release date of a catalogue id.  Ids past
\* the second are further entries of the older title.
get_igdb_game_details(igdb_id) ==
    IF igdb_id = 1
    THEN [official_title |-> "Dragon Quest II", release_date |-> DateOf(19991)]
    ELSE [official_title |-> "Dragon Quest", release_date |-> DateOf(17900)]

\* What the sources hold: adapter, release name, group, timestamp (seconds;
\* the repack site has none of its own, the engine stamps its result with the
\* time of the pass, which is the timestamp given here).  Day 19991 is
\* 2024-09-25.
Catalog ==
    << [adapter |-> "club", release |-> "Dragon Quest II Definitive Edition-GROUP",
        group |-> "GROUP", timestamp |-> 19991 * 86400 + 3600],
       [adapter |-> "club", release |-> "Dragon.Quest.II-EARLY",
        group |-> "EARLY", timestamp |-> (19991 - 45) * 86400],
       [adapter |-> "net", release |-> "Dragon.Quest.II.UPDATE.v1.2-GROUP",
        group |-> "", timestamp |-> 0],
       [adapter |-> "xrel", release |-> "Dragon Quest III Remake-GROUP",
        group |-> "GROUP", timestamp |-> (19991 + 100) * 86400],
       [adapter |-> "xrel", release |-> "Dragon.Quest.II.A&amp;B-P2P",
        group |-> "P2P", timestamp |-> (19991 + 1) * 86400],
       [adapter |-> "xrel", release |-> "Dragon.Quest.II.A&B-P2P",
        group |-> "P2P", timestamp |-> (19991 + 1) * 86400],
       [adapter |-> "fitgirl", release |-> "Dragon Quest II Repack",
        group |-> "FitGirl", timestamp |-> (19991 + 2) * 86400],
       [adapter |-> "club", release |-> "Dragon.Quest.II.NSW-VENOM",
        group |-> "VENOM", timestamp |-> (19991 + 3) * 86400],
       [adapter |-> "net", release |-> "Dragon.Quest.II.C&amp;D.DLC-GRP",
        group |-> "", timestamp |-> (19991 + 30) * 86400],
       [adapter |-> "xrel", release |-> "Dragon.Quest.II.C&D.DLC-GRP",
        group |-> "GRP", timestamp |-> (19991 + 30) * 86400],
       [adapter |-> "club", release |-> "Dragon.Quest.II-RUNE",
        group |-> "RUNE", timestamp |-> (19991 + 5) * 86400],
       [adapter |-> "net", release |-> "Dragon.Quest.II-RUNE",
        group |-> "", timestamp |-> (19991 + 200) * 86400],
       [adapter |-> "xrel", release |-> "Dragon.Quest.II-RUNE",
        group |-> "P2P", timestamp |-> (19991 + 400) * 86400],
       [adapter |-> "fitgirl", release |-> "Dragon.Quest.II-RUNE",
        group |-> "FitGirl", timestamp |-> (19991 + 800) * 86400],
       [adapter |-> "club", release |-> "Dragon.Quest.II.FIX-GROUP",
        group |-> "GROUP", timestamp |-> (19991 + 10) * 86400],
       [adapter |-> "xrel", release |-> "Dragon.Quest.II.DLC.WII-GRP",
        group |-> "GRP", timestamp |-> (19991 + 30) * 86400],
       [adapter |-> "net", release |-> "DLC.Dragon.Quest.II-GRP",
        group |-> "GRP", timestamp |-> (19991 + 30) * 86400],
       [adapter |-> "net", release |-> "Dragon.Quest.II.UPDATE.BDRIP-GRP",
        group |-> "GRP", timestamp |-> (19991 + 30) * 86400],
       [adapter |-> "club", release |-> "Dragon.Quest.II.Masquerade-RUNE",
        group |-> "RUNE", timestamp |-> (19991 + 5) * 86400] >>

MaxFeed == 2
CatalogIndex == [i \in 1..Len(Catalog) |-> i]
\* A feed: the catalogue entries the sources return to one pass.  The
\* releases of the game itself come first in the catalogue; the console
\* release and the two spellings of one add-on follow them, then one name
\* that every adapter returns and three add-on names, then a video rip of
\* an update and a scene release with the name of a repack group in its
\* title.
GameEntries == {i \in 1..Len(Catalog) : Catalog[i].release \in
                  {"Dragon Quest II Definitive Edition-GROUP", "Dragon.Quest.II-EARLY",
                   "Dragon.Quest.II.UPDATE.v1.2-GROUP", "Dragon Quest III Remake-GROUP",
                   "Dragon.Quest.II.A&amp;B-P2P", "Dragon.Quest.II.A&B-P2P",
                   "Dragon Quest II Repack"}}
Feeds == {F \in SUBSET GameEntries : Cardinality(F) <= MaxFeed}
\* The feeds over the whole catalogue.
AllFeeds == {F \in SUBSET (1..Len(Catalog)) : Cardinality(F) <= MaxFeed}
\* The entries of the name every adapter returns, of the add-on names with a
\* keyword at the edge and of the two names after them, and the feeds made
\* of them and of the others.
EdgeEntries == {i \in 1..Len(Catalog) : Catalog[i].release \in
                  {"Dragon.Quest.II-RUNE", "Dragon.Quest.II.FIX-GROUP",
                   "Dragon.Quest.II.DLC.WII-GRP", "DLC.Dragon.Quest.II-GRP",
                   "Dragon.Quest.II.UPDATE.BDRIP-GRP", "Dragon.Quest.II.Masquerade-RUNE"}}
EdgeFeeds == {F \in AllFeeds : F \subseteq EdgeEntries}
CatalogFeeds == {F \in AllFeeds : F \cap EdgeEntries = {}}

\* The results of one adapter, in the order the source lists them.
entries(idx) == [k \in 1..Len(idx) |-> Catalog[idx[k]]]
adapter_results(F, adapter) ==
    entries(SelectSeq(CatalogIndex, LAMBDA i : i \in F /\ Catalog[i].adapter = adapter))

_search_predb_club(F) == adapter_results(F, "club")
_search_predb_net(F) == adapter_results(F, "net")
check_source_xrel(F) == adapter_results(F, "xrel")

\* The first title of the repack site's result page that passes the
\* module-level matcher at 0.8, as a sequence of at most one element.
check_source_fitgirl(game_title, F) ==
    first_of(SelectSeq(adapter_results(F, "fitgirl"),
                 LAMBDA r : _is_valid_game_match(Text[game_title], Text[r.release], 8)))

(***************************************************************************)
(* STEP 1: all_releases, a dict in insertion order, as a sequence of       *)
(* [release, source, type, timestamp].                                     *)
(***************************************************************************)
has_key(d, k) == \E i \in 1..Len(d) : d[i].release = k

\* d[k] = v : a new key goes last, an old key keeps its place.
dict_assign(d, v) ==
    IF has_key(d, v.release)
    THEN [i \in 1..Len(d) |-> IF d[i].release = v.release THEN v ELSE d[i]]
    ELSE Append(d, v)
\* d.setdefault(k, v)
\* A gather step that assigned in every loop would let the last adapter win.
setdefault_overwriting(d, v) == dict_assign(d, v)
dict_setdefault(d, v) == IF has_key(d, v.release) THEN d ELSE Append(d, v)

release_entry(r, type) ==
    [release |-> r.release, source |-> IF r.group = "" THEN type ELSE r.group,
     type |-> type, timestamp |-> r.timestamp]

RECURSIVE gather_assign(_, _, _)
gather_assign(d, results, type) ==
    IF results = <<>> THEN d
    ELSE gather_assign(dict_assign(d, release_entry(Head(results), type)),
                       Tail(results), type)
RECURSIVE gather_setdefault(_, _, _)
gather_setdefault(d, results, type) ==
    IF results = <<>> THEN d
    ELSE gather_setdefault(dict_setdefault(d, release_entry(Head(results), type)),
                           Tail(results), type)

gather_fitgirl(d, fitgirl_release) ==
    IF fitgirl_release = <<>> THEN d
    ELSE dict_setdefault(d, [release |-> fitgirl_release[1].release, source |-> "FitGirl",
                             type |-> "Repack", timestamp |-> fitgirl_release[1].timestamp])

gather(game_title, F) ==
    gather_fitgirl(
        gather_setdefault(
            gather_setdefault(gather_assign(<<>>, _search_predb_club(F), "Scene"),
                              _search_predb_net(F), "Scene"),
            check_source_xrel(F), "P2P"),
        check_source_fitgirl(game_title, F))

\* An adapter whose request fails (network error, timeout, a payload that
\* does not parse): the except clause logs and returns the empty result.
Adapters == {"club", "net", "xrel", "fitgirl"}
\* An adapter that returned what it had would hand on results of a source
\* that failed.
ignoring_failure(failed, adapter, results) == results

adapter_call(failed, adapter, results) == IF adapter \in failed THEN <<>> ELSE results

\* The gather step of a pass during which the adapters in failed fail.
gather_failing(game_title, F, failed) ==
    gather_fitgirl(
        gather_setdefault(
            gather_setdefault(
                gather_assign(<<>>, adapter_call(failed, "club", _search_predb_club(F)), "Scene"),
                adapter_call(failed, "net", _search_predb_net(F)), "Scene"),
            adapter_call(failed, "xrel", check_source_xrel(F)), "P2P"),
        adapter_call(failed, "fitgirl", check_source_fitgirl(game_title, F)))

(***************************************************************************)
(* STEP 2: categorize and filter.                                          *)
(***************************************************************************)
clean_name_of(name) == StrOf(html_unescape(Text[name]))

has_keyword(keywords, name) == \E k \in keywords : Text[k] \in upper_words(Text[name])

\* A categorizer without the add-on branch would pass every entry on to the
\* base-game filters.
is_add_on_never(data) == data.release = ""

is_add_on(data) == has_keyword(TYPE_BLOCKED_KEYWORDS, clean_name_of(data.release))

\* Whether an entry that is no add-on is kept as a base-game candidate.
is_base_game_candidate(igdb_details, data) ==
    /\ ~has_keyword(MOVIE_KEYWORDS, clean_name_of(data.release))
    /\ engine_is_valid_game_match(Text[igdb_details.official_title],
                                  Text[clean_name_of(data.release)])
    /\ ~(_calculate_relevancy_score(igdb_details.release_date, data.timestamp) < 0)

base_game_candidate(igdb_details, data) ==
    [release_name |-> clean_name_of(data.release),
     source |-> data.source,
     type |-> _detect_type(Text[clean_name_of(data.release)], data.type),
     score |-> _calculate_relevancy_score(igdb_details.release_date, data.timestamp),
     is_pc |-> ~has_keyword(PLATFORM_KEYWORDS, clean_name_of(data.release))]

add_on_item(data) ==
    [release_name |-> clean_name_of(data.release), source |-> data.source]

candidate_items(igdb_details, kept) ==
    [i \in 1..Len(kept) |-> base_game_candidate(igdb_details, kept[i])]
add_on_items(kept) == [i \in 1..Len(kept) |-> add_on_item(kept[i])]

categorize(igdb_details, all_releases) ==
    [base_game_candidates |->
        candidate_items(igdb_details,
            SelectSeq(all_releases,
                LAMBDA data : ~is_add_on(data) /\ is_base_game_candidate(igdb_details, data))),
     add_ons |-> add_on_items(SelectSeq(all_releases, is_add_on))]

(***************************************************************************)
(* STEP 3: rank.  sorted(..., reverse=True) is stable: equal keys keep     *)
(* their order.                                                            *)
(***************************************************************************)
bool_rank(b) == IF b THEN 1 ELSE 0
\* A sort key without the tier would leave candidates of equal score in the
\* order the sources gave them.
key_without_tier(a, b) ==
    \/ bool_rank(a.is_pc) > bool_rank(b.is_pc)
    \/ a.is_pc = b.is_pc /\ a.score > b.score

\* key(a) > key(b) for key = (is_pc, score, TIER_ORDER[type])
key_greater(a, b) ==
    \/ bool_rank(a.is_pc) > bool_rank(b.is_pc)
    \/ /\ a.is_pc = b.is_pc
       /\ \/ a.score > b.score
          \/ a.score = b.score /\ TIER_ORDER(a.type) > TIER_ORDER(b.type)

\* x inserted behind every element whose key is not smaller than its own.
RECURSIVE insert_sorted(_, _)
insert_sorted(s, x) ==
    IF s = <<>> THEN <<x>>
    ELSE IF key_greater(x, Head(s)) THEN <<x>> \o s
    ELSE <<Head(s)>> \o insert_sorted(Tail(s), x)

RECURSIVE sorted_desc(_, _)
sorted_desc(acc, rest) ==
    IF rest = <<>> THEN acc ELSE sorted_desc(insert_sorted(acc, Head(rest)), Tail(rest))

sorted_games(base_game_candidates) == sorted_desc(<<>>, base_game_candidates)

(***************************************************************************)
(* The store and the jobs.                                                 *)
(*   game                 Game rows, by catalogue id                       *)
(*   alternative_release  AlternativeRelease rows, a bag: the table has no *)
(*                        uniqueness constraint                            *)
(*   additional_release   AdditionalRelease rows (release_name is unique)  *)
(*   job                  the scheduler's running job instances            *)
(*   claims               per game, the queue claims made since            *)
(*                        needs_release_check was last set (history)       *)
(*   inserted             per catalogue id, the Game rows of the table     *)
(*                        that carry it (game holds the row a query by     *)
(*                        the id returns)                                  *)
(*   clock                time.time(), in hours                            *)
(*   setting              the Setting row last_backlog_check_timestamp:    *)
(*                        <<>> while there is none, <<t>> with its value   *)
(*   run_backlog_check    the flag of the same name of the sweep that runs *)
(* The store variables hold committed state; what a pass has changed in    *)
(* its session and not yet committed is job[r].pending.                    *)
(***************************************************************************)
VARIABLES game, alternative_release, additional_release, job, claims, inserted, clock, setting, run_backlog_check

vars == <<game, alternative_release, additional_release, job, claims, inserted, clock, setting, run_backlog_check>>
timing == <<clock, setting, run_backlog_check>>
store == <<game, alternative_release, additional_release>>

\* Instances of process_release_check_queue that may run at once (the job is
\* added with max_instances=3); one instance each of check_for_releases and
\* scan_all_library_games follows them, and one of auto_download_snatcher.
NumWorkers == 2
QueueWorkers == 1..NumWorkers
SweepJob == NumWorkers + 1
ScanJob == NumWorkers + 2
SnatchJob == NumWorkers + 3
Jobs == 1..(NumWorkers + 3)
\* Two request threads of the web server, for the confirmations that come
\* in at once.
Requests == {NumWorkers + 4, NumWorkers + 5}
\* The post-processing job, when its steps are told apart.
ImportJob == NumWorkers + 6
\* The download-status job, for the error it logs.
PollJob == NumWorkers + 7
\* The release sweep with its date rules and its backlog throttle.
TickJob == NumWorkers + 8
\* The title check of the repack-site adapter, on its own.
MatchJob == NumWorkers + 9

\* The clock starts on the day before the release of the first game and is
\* followed for MaxHours hours.
StartClock == (19991 - 1) * 24
MaxHours == 49

Idle == [pc |-> "idle", todo |-> <<>>, snap |-> <<>>, pending |-> <<>>]

new_game(status, needs_release_check) ==
    [status |-> status, release_name |-> "None", release_group |-> "None",
     release_type |-> "None", needs_release_check |-> needs_release_check,
     torrent_hash |-> "None"]

Init ==
    /\ game = <<>>
    /\ alternative_release = EmptyBag
    /\ additional_release = {}
    /\ job = [r \in Jobs \cup Requests \cup {ImportJob, PollJob, TickJob, MatchJob} |-> Idle]
    /\ claims = [g \in Games |-> 0]
    /\ inserted = [g \in Games |-> 0]
    /\ clock = StartClock
    /\ setting = <<>>
    /\ run_backlog_check = FALSE

exists(g) == g \in DOMAIN game
details(g) == get_igdb_game_details(g)

(***************************************************************************)
(* Request handlers (routes.py).                                           *)
(***************************************************************************)
add_game_confirm(g) ==
    /\ ~exists(g)
    /\ game' = (g :> new_game("Processing", TRUE)) @@ game
    /\ claims' = [claims EXCEPT ![g] = 0]
    /\ inserted' = [inserted EXCEPT ![g] = @ + 1]
    /\ UNCHANGED <<alternative_release, additional_release, job, timing>>

library_import_confirm(g) ==
    /\ ~exists(g)
    /\ game' = (g :> new_game("Imported", FALSE)) @@ game
    /\ inserted' = [inserted EXCEPT ![g] = @ + 1]
    /\ UNCHANGED <<alternative_release, additional_release, job, claims, timing>>

\* The same two handlers step by step, for requests that are served at once:
\* the duplicate check, then the INSERT and the commit.  Game.igdb_id is
\* unique: the INSERT of an id that is a row by then raises IntegrityError
\* and the request ends with nothing written.
no_unique_index(games, g) == FALSE

unique_violation(games, g) == g \in DOMAIN games

confirm_check(q, g, status, needs_release_check) ==
    /\ job[q].pc = "idle"
    /\ ~exists(g)
    /\ job' = [job EXCEPT ![q] = [pc |-> "checked", todo |-> <<g>>, snap |-> <<>>,
                                  pending |-> new_game(status, needs_release_check)]]
    /\ UNCHANGED <<store, claims, inserted, timing>>
add_game_check(q, g) == confirm_check(q, g, "Processing", TRUE)
library_import_check(q, g) == confirm_check(q, g, "Imported", FALSE)

confirm_insert(q) ==
    /\ job[q].pc = "checked"
    /\ IF unique_violation(game, Head(job[q].todo))
       THEN UNCHANGED <<game, claims, inserted, timing>>
       ELSE /\ game' = (Head(job[q].todo) :> job[q].pending) @@ game
            /\ claims' = [claims EXCEPT ![Head(job[q].todo)] = 0]
            /\ inserted' = [inserted EXCEPT ![Head(job[q].todo)] = @ + 1]
    /\ job' = [job EXCEPT ![q] = Idle]
    /\ UNCHANGED <<alternative_release, additional_release, timing>>

manual_scan_game(g) ==
    /\ exists(g)
    /\ game' = [game EXCEPT ![g].status = "Processing", ![g].needs_release_check = TRUE]
    /\ claims' = [claims EXCEPT ![g] = 0]
    /\ UNCHANGED <<alternative_release, additional_release, job, inserted, timing>>

\* add_to_qbittorrent returned a hash (when it returns None nothing changes).
download(g) ==
    /\ exists(g)
    /\ game' = [game EXCEPT ![g].status = "Snatched", ![g].torrent_hash = "hash"]
    /\ UNCHANGED <<alternative_release, additional_release, job, claims, inserted, timing>>

\* The delete action of the activity page: the torrent is removed from the
\* client and the game that holds its hash is reset (pause and resume change
\* nothing in the store).
activity_action(g) ==
    /\ exists(g)
    /\ game[g].torrent_hash # "None"
    /\ game' = [game EXCEPT ![g].status = "Cracked", ![g].torrent_hash = "None"]
    /\ UNCHANGED <<alternative_release, additional_release, job, claims, inserted, timing>>

(***************************************************************************)
(* Download tracking and post-processing (jobs.py).                        *)
(***************************************************************************)
tracked(g) ==
    /\ exists(g)
    /\ game[g].status \notin {"Monitoring", "Cracked", "Imported"}
    /\ game[g].torrent_hash # "None"

\* What the download client reports for a tracked hash.
TorrentInfos == {"complete", "downloading", "error", "other", "gone"}

status_after_poll(row, info) ==
    CASE info = "complete" -> [row EXCEPT !.status = "Downloaded"]
      [] info = "downloading" -> [row EXCEPT !.status = "Downloading"]
      [] info = "error" -> [row EXCEPT !.status = "Error"]
      [] info = "gone" ->
            [row EXCEPT !.status = IF row.release_type = "Scene"
                                   THEN "Cracked (Scene)" ELSE "Cracked (P2P)",
                        !.torrent_hash = "None"]
      [] OTHER -> row

update_download_statuses ==
    /\ \E g \in Games : tracked(g)
    /\ \E info \in [{g \in Games : tracked(g)} -> TorrentInfos] :
          game' = [g \in DOMAIN game |->
                      IF tracked(g) THEN status_after_poll(game[g], info[g]) ELSE game[g]]
    /\ UNCHANGED <<alternative_release, additional_release, job, claims, inserted, timing>>

\* The rows of the session after the loop has handled the torrents of info.
polled(games, info) ==
    [g \in DOMAIN games |->
        IF g \in DOMAIN info THEN status_after_poll(games[g], info[g]) ELSE games[g]]

\* A handler that committed what the session held when the run failed.
session_committed(committed, session) == session

\* except Exception: db.session.rollback()
rolled_back(committed, session) == committed

\* A run of update_download_statuses that raises: the client cannot be
\* reached (get_qbit_client returns None and the attribute access raises),
\* the status query raises, or the run fails after some of the items have
\* been changed in the session.  The error is logged.
update_download_statuses_raising ==
    /\ \E g \in Games : tracked(g)
    /\ \E S \in SUBSET {g \in Games : tracked(g)} : \E info \in [S -> TorrentInfos] :
          game' = rolled_back(game, polled(game, info))
    /\ job' = [job EXCEPT ![PollJob] = [Idle EXCEPT !.pending = <<"error">>]]
    /\ UNCHANGED <<alternative_release, additional_release, claims, inserted, timing>>

\* The import of a downloaded game into the library.
process_and_import_game(row) == [row EXCEPT !.status = "Imported"]

\* process_completed_downloads claims the first Downloaded game and hands it
\* to process_and_import_game, which leaves it Imported; when the import
\* raises, the claim is reverted and the game is Downloaded as before.
process_completed_downloads ==
    /\ \E g \in Games : exists(g) /\ game[g].status = "Downloaded"
    /\ LET g == CHOOSE h \in Games :
                  /\ exists(h) /\ game[h].status = "Downloaded"
                  /\ \A k \in Games : exists(k) /\ game[k].status = "Downloaded" => h <= k
       IN  game' = [game EXCEPT ![g] = process_and_import_game(game[g])]
    /\ UNCHANGED <<alternative_release, additional_release, job, claims, inserted, timing>>

\* The same job step by step: the claim is committed before the import
\* starts, and other jobs and requests run while the import does.
first_downloaded ==
    CHOOSE h \in Games :
        /\ exists(h) /\ game[h].status = "Downloaded"
        /\ \A k \in Games : exists(k) /\ game[k].status = "Downloaded" => h <= k

\* game_to_process.status = 'Importing'; db.session.commit()
import_claim ==
    /\ job[ImportJob].pc = "idle"
    /\ \E g \in Games : exists(g) /\ game[g].status = "Downloaded"
    /\ game' = [game EXCEPT ![first_downloaded].status = "Importing"]
    /\ job' = [job EXCEPT ![ImportJob] = [pc |-> "importing", todo |-> <<first_downloaded>>,
                                          snap |-> <<>>, pending |-> <<>>]]
    /\ UNCHANGED <<alternative_release, additional_release, claims, inserted, timing>>

\* process_and_import_game returned.
import_finish ==
    /\ job[ImportJob].pc = "importing"
    /\ game' = [game EXCEPT ![Head(job[ImportJob].todo)] = process_and_import_game(@)]
    /\ job' = [job EXCEPT ![ImportJob] = Idle]
    /\ UNCHANGED <<alternative_release, additional_release, claims, inserted, timing>>

\* An except clause that only logged would leave the claim in place.
claim_kept(row) == row

\* except Exception: the row is read again and, when it is still Importing,
\* set back to Downloaded.
claim_reverted(row) ==
    IF row.status = "Importing" THEN [row EXCEPT !.status = "Downloaded"] ELSE row

\* process_and_import_game raised; the error is logged (kept in the job's
\* slot until its next run).
import_fail ==
    /\ job[ImportJob].pc = "importing"
    /\ game' = [game EXCEPT ![Head(job[ImportJob].todo)] = claim_reverted(@)]
    /\ job' = [job EXCEPT ![ImportJob] = [Idle EXCEPT !.pending = <<"error">>]]
    /\ UNCHANGED <<alternative_release, additional_release, claims, inserted, timing>>

(***************************************************************************)
(* The unified engine, process_all_releases_for_game, as a job runs it:    *)
(* load the Game row, gather, stage the changes in the session, commit.    *)
(***************************************************************************)
\* What one pass makes of a feed: whether anything was gathered, the ranked
\* base-game candidates, and the add-ons with their parsed type.
typed_add_ons(items) ==
    SubSeq([i \in 1..Len(items) |->
               [release_name |-> items[i].release_name,
                source |-> items[i].source,
                release_type |-> parse_additional_release_info(Text[items[i].release_name])]],
           1, Len(items))
ranked(all_releases, c) ==
    [found |-> all_releases # <<>>,
     base_game_candidates |-> SubSeq(c.base_game_candidates, 1, Len(c.base_game_candidates)),
     sorted_games |-> sorted_games(c.base_game_candidates),
     add_ons |-> typed_add_ons(c.add_ons)]
categorized(igdb_details, all_releases) ==
    ranked(all_releases, categorize(igdb_details, all_releases))
scan(g, F) == categorized(details(g), gather(details(g).official_title, F))

\* scan for every game and feed, computed once and kept as an explicit table.
ScanTable == [p \in Games \X AllFeeds |-> scan(p[1], p[2])] @@ <<>>

\* The same for a pass during which adapters fail, over the edge feeds.
scan_failing(g, F, failed) ==
    categorized(details(g), gather_failing(details(g).official_title, F, failed))
FailingScans ==
    [p \in Games \X EdgeFeeds \X SUBSET Adapters |-> scan_failing(p[1], p[2], p[3])] @@ <<>>

\* The committed rows, as one record.
db == [game |-> game, alternative_release |-> alternative_release,
       additional_release |-> additional_release]

\* game.alternatives of game g in the table alts.
alternatives_of(alts, g) == {a \in BagToSet(alts) : a.game_id = g}
alternative_names(alts, g) == {a.release_name : a \in alternatives_of(alts, g)}
\* The rows of game g with their multiplicities.
alternative_rows(alts, g) == [a \in alternatives_of(alts, g) |-> CopiesIn(a, alts)]

alt_row(g, data) == [game_id |-> g, release_name |-> data.release_name, source |-> data.source]

RECURSIVE rows_to_bag(_)
rows_to_bag(rows) ==
    IF rows = <<>> THEN EmptyBag ELSE SetToBag({Head(rows)}) (+) rows_to_bag(Tail(rows))

alt_rows(g, items) == rows_to_bag([i \in 1..Len(items) |-> alt_row(g, items[i])])

\* A status that did not look at the type would call every release P2P.
status_whatever_type(type) == IF type = "" THEN "Cracked (Scene)" ELSE "Cracked (P2P)"

status_for_type(type) == IF type = "Scene" THEN "Cracked (Scene)" ELSE "Cracked (P2P)"

\* Every other status: the winner becomes the primary release, the stored
\* alternatives are deleted and the other candidates stored in their place.
\* A primary assignment that forgot the tier would leave it null beside a name.
primary_without_type(snap, primary_release) ==
    [snap EXCEPT !.release_name = primary_release.release_name,
                 !.release_group = primary_release.source,
                 !.status = status_for_type(primary_release.type)]
with_primary(snap, primary_release) ==
    [snap EXCEPT !.release_name = primary_release.release_name,
                 !.release_group = primary_release.source,
                 !.release_type = primary_release.type,
                 !.status = status_for_type(primary_release.type)]
\* An engine that only inserted would keep the rows of the passes before.
stage_primary_keeping_rows(g, snap, sorted, alts) ==
    [row |-> with_primary(snap, sorted[1]),
     deleted |-> EmptyBag,
     new_alts |-> alt_rows(g, Tail(sorted))]

stage_primary(g, snap, sorted, alts) ==
    [row |-> with_primary(snap, sorted[1]),
     deleted |-> alternative_rows(alts, g),
     new_alts |-> alt_rows(g, Tail(sorted))]

\* An engine without the Imported branch would treat an Imported game like
\* any other.
stage_imported_unguarded(g, snap, sorted, alts) == stage_primary(g, snap, sorted, alts)

\* The Imported branch: every ranked candidate not yet recorded as an
\* alternative of the game is added; nothing else of the game changes.
stage_imported(g, snap, sorted, alts) ==
    [row |-> snap,
     deleted |-> EmptyBag,
     new_alts |-> alt_rows(g, SelectSeq(sorted,
                     LAMBDA data : data.release_name \notin alternative_names(alts, g)))]

stage_base_games(g, snap, sorted, alts) ==
    IF sorted = <<>>
    THEN [row |-> snap, deleted |-> EmptyBag, new_alts |-> EmptyBag]
    ELSE IF snap.status = "Imported" THEN stage_imported(g, snap, sorted, alts)
    ELSE stage_primary(g, snap, sorted, alts)

\* STEP 4: the add-ons of the feed that are not yet rows of this game and
\* have a type.
existing_add_ons(adds, g) == {a.release_name : a \in {x \in adds : x.game_id = g}}
add_on_rows(g, items) ==
    SubSeq([i \in 1..Len(items) |->
               [release_name |-> items[i].release_name,
                release_type |-> items[i].release_type,
                status |-> "Not Snatched", source |-> items[i].source, game_id |-> g]],
           1, Len(items))
stage_add_ons(g, items, adds) ==
    add_on_rows(g, SelectSeq(items,
                      LAMBDA item : /\ item.release_name \notin existing_add_ons(adds, g)
                                    /\ item.release_type # "None"))

\* Steps 3 and 4 and the last assignment before the commit, on the rows d
\* for the Game row snap the pass has loaded and the feed F it has gathered.
staged(F, base, new_adds) ==
    [feed |-> F,
     row |-> [base.row EXCEPT !.needs_release_check = FALSE],
     deleted |-> base.deleted,
     new_alts |-> base.new_alts,
     new_adds |-> new_adds]
stage_scanned(d, g, snap, F, scanned) ==
    staged(F, stage_base_games(g, snap, scanned.sorted_games, d.alternative_release),
           stage_add_ons(g, scanned.add_ons, d.additional_release))
stage(d, g, snap, F) == stage_scanned(d, g, snap, F, ScanTable[<<g, F>>])

\* The UPDATE a flush emits for a Game: the columns whose value in the
\* session differs from the value it loaded; the others keep what is
\* committed.
flush_column(committed, loaded, current) == IF current # loaded THEN current ELSE committed
flush_game(committed, snap, row) ==
    [status |-> flush_column(committed.status, snap.status, row.status),
     release_name |-> flush_column(committed.release_name, snap.release_name, row.release_name),
     release_group |-> flush_column(committed.release_group, snap.release_group, row.release_group),
     release_type |-> flush_column(committed.release_type, snap.release_type, row.release_type),
     needs_release_check |-> flush_column(committed.needs_release_check,
                                          snap.needs_release_check, row.needs_release_check),
     torrent_hash |-> flush_column(committed.torrent_hash, snap.torrent_hash, row.torrent_hash)]

\* AdditionalRelease.release_name is unique: the INSERTs of a flush fail when
\* a name is already a row (of any game) or is inserted twice.
integrity_error(adds, new_adds) ==
    \/ \E i \in 1..Len(new_adds) : \E a \in adds : a.release_name = new_adds[i].release_name
    \/ \E i, j \in 1..Len(new_adds) : i < j /\ new_adds[i].release_name = new_adds[j].release_name

\* A commit that wrote the Game row and lost the release rows would be a
\* partial write.
commit_game_row_only(d, g, snap, p) ==
    [d EXCEPT !.game[g] = flush_game(d.game[g], snap, p.row)]

\* db.session.commit() of the staged changes p: the rows afterwards.
commit(d, g, snap, p) ==
    [game |-> [d.game EXCEPT ![g] = flush_game(d.game[g], snap, p.row)],
     alternative_release |-> (d.alternative_release (-) p.deleted) (+) p.new_alts,
     additional_release |->
        d.additional_release \cup {p.new_adds[i] : i \in 1..Len(p.new_adds)}]

\* A zero-result exit that did not look at the status would send every game
\* back to Monitoring.
no_results_any_status(d, g, snap) == [d EXCEPT !.game[g].status = "Monitoring"]

\* The zero-result exit: a Processing game goes back to Monitoring.
no_results(d, g, snap) ==
    [d EXCEPT !.game[g] =
        flush_game(d.game[g], snap,
                   IF snap.status = "Processing" THEN [snap EXCEPT !.status = "Monitoring"]
                   ELSE snap)]

\* One whole pass over the rows d for game g with the feed F, nothing else
\* running meanwhile: the rows afterwards.
flush(d, g, snap, p) ==
    IF integrity_error(d.additional_release, p.new_adds) THEN d ELSE commit(d, g, snap, p)
pass_over(d, g, F, scanned) ==
    IF ~scanned.found THEN no_results(d, g, d.game[g])
    ELSE flush(d, g, d.game[g], stage_scanned(d, g, d.game[g], F, scanned))
process_all_releases_for_game(d, g, F) == pass_over(d, g, F, ScanTable[<<g, F>>])

\* The game a job is working on.
current(r) == Head(job[r].todo)

\* The job after a pass has returned: a queue worker is done, a sweep goes on
\* to the next game of its list.
after_pass(r) ==
    IF r \in QueueWorkers THEN Idle
    ELSE IF Len(job[r].todo) = 1
    THEN IF r = TickJob THEN [Idle EXCEPT !.pc = "swept"] ELSE Idle
    ELSE [pc |-> "ready", todo |-> Tail(job[r].todo), snap |-> <<>>, pending |-> <<>>]

\* Game.query.get(game_id) and the first read of the row.
pass_begin(r) ==
    /\ job[r].pc = "ready"
    /\ job' = [job EXCEPT ![r].pc = "gathering", ![r].snap = game[current(r)]]
    /\ UNCHANGED <<store, claims, inserted, timing>>

\* The sources return nothing: a Processing game goes back to Monitoring,
\* and the pass commits and returns.
pass_no_results(r) ==
    /\ job[r].pc = "gathering"
    /\ \E F \in Feeds : ~ScanTable[<<current(r), F>>].found
    /\ game' = no_results(db, current(r), job[r].snap).game
    /\ job' = [job EXCEPT ![r] = after_pass(r)]
    /\ UNCHANGED <<alternative_release, additional_release, claims, inserted, timing>>

\* The sources return a feed: steps 2 to 4 change the session, nothing is
\* committed yet.
stage_found(r, F, scanned) ==
    /\ scanned.found
    /\ job' = [job EXCEPT ![r].pc = "staged",
                          ![r].pending = stage_scanned(db, current(r), job[r].snap, F, scanned)]
pass_stage_of(r, feeds) ==
    /\ job[r].pc = "gathering"
    /\ \E F \in feeds : stage_found(r, F, ScanTable[<<current(r), F>>])
    /\ UNCHANGED <<store, claims, inserted, timing>>
pass_stage(r) == pass_stage_of(r, Feeds)

\* Steps 1 to 4 of a pass during which some adapters fail: the zero-result
\* exit when nothing is gathered, the staged changes otherwise.
gathered_failing(r, F, failed, scanned) ==
    IF scanned.found
    THEN /\ job' = [job EXCEPT ![r].pc = "staged",
                               ![r].pending = [failed |-> failed] @@
                                   stage_scanned(db, current(r), job[r].snap, F, scanned)]
         /\ UNCHANGED <<store, claims, inserted, timing>>
    ELSE /\ game' = no_results(db, current(r), job[r].snap).game
         /\ job' = [job EXCEPT ![r] = after_pass(r)]
         /\ UNCHANGED <<alternative_release, additional_release, claims, inserted, timing>>
pass_gather_failing(r) ==
    /\ job[r].pc = "gathering"
    /\ \E F \in EdgeFeeds : \E failed \in SUBSET Adapters :
          gathered_failing(r, F, failed, FailingScans[<<current(r), F, failed>>])

\* The rows after a commit.
written(after) ==
    /\ game' = after.game
    /\ alternative_release' = after.alternative_release
    /\ additional_release' = after.additional_release

\* db.session.commit() at the end of the pass: everything staged is written
\* in one transaction, or the flush raises and the job ends with nothing
\* written.
pass_commit(r) ==
    /\ job[r].pc = "staged"
    /\ IF integrity_error(additional_release, job[r].pending.new_adds)
       THEN /\ job' = [job EXCEPT ![r] = Idle]
            /\ UNCHANGED store
       ELSE /\ written(commit(db, current(r), job[r].snap, job[r].pending))
            /\ job' = [job EXCEPT ![r] = after_pass(r)]
    /\ UNCHANGED <<claims, inserted, timing>>

\* Any other exception of the pass (a query or the commit fails): it reaches
\* the scheduler, the job ends and its session is discarded.
pass_fail(r) ==
    /\ job[r].pc \in {"gathering", "staged"}
    /\ job' = [job EXCEPT ![r] = Idle]
    /\ UNCHANGED <<store, claims, inserted, timing>>

(***************************************************************************)
(* The jobs that run the engine (jobs.py).                                 *)
(***************************************************************************)
flagged == {g \in Games : exists(g) /\ game[g].needs_release_check}

\* Game.query.filter_by(needs_release_check=True).order_by(Game.id).first()
queue_query(r) ==
    /\ r \in QueueWorkers
    /\ job[r].pc = "idle"
    /\ flagged # {}
    /\ LET g == CHOOSE h \in flagged : \A k \in flagged : h <= k
       IN  job' = [job EXCEPT ![r] = [pc |-> "queried", todo |-> <<g>>,
                                      snap |-> <<>>, pending |-> <<>>]]
    /\ UNCHANGED <<store, claims, inserted, timing>>

\* game_to_check.needs_release_check = False; db.session.commit()
queue_claim(r) ==
    /\ r \in QueueWorkers
    /\ job[r].pc = "queried"
    /\ game' = [game EXCEPT ![current(r)].needs_release_check = FALSE]
    /\ claims' = [claims EXCEPT ![current(r)] = @ + 1]
    /\ job' = [job EXCEPT ![r].pc = "ready"]
    /\ UNCHANGED <<alternative_release, additional_release, inserted, timing>>

\* The games a set of ids lists, in id order.
RECURSIVE in_order(_)
in_order(S) ==
    IF S = {} THEN <<>>
    ELSE LET g == CHOOSE h \in S : \A k \in S : h <= k
         IN  <<g>> \o in_order(S \ {g})

\* check_for_releases: of the Monitoring games, those the date rules let
\* through on this tick are scanned one after the other.
check_for_releases ==
    /\ job[SweepJob].pc = "idle"
    /\ \E S \in SUBSET {g \in Games : exists(g) /\ game[g].status = "Monitoring"} :
          /\ S # {}
          /\ job' = [job EXCEPT ![SweepJob] = [pc |-> "ready", todo |-> in_order(S),
                                               snap |-> <<>>, pending |-> <<>>]]
    /\ UNCHANGED <<store, claims, inserted, timing>>

\* The same job with its date rules: today is the date of the clock, a game
\* without a date, with a date strptime cannot read or with a date after
\* today is skipped, a game of the last hot_release_window_days days is
\* scanned, an older one is scanned when the backlog check runs.
hot_release_window_days == 30
backlog_check_interval_hours == 23
today == clock \div 24
sweep_class(release_date, day) ==
    IF release_date.kind # "date" THEN "skip"
    ELSE IF release_date.day > day THEN "skip"
    ELSE IF day - release_date.day <= hot_release_window_days THEN "hot"
    ELSE "backlog"
\* No row, or more than backlog_check_interval_hours hours since its value.
\* (The row the job adds with value 0 when there is none is written by the
\* first commit of the run; read by a later run it is 1970 and has the
\* effect of no row, which is what the model keeps.)
backlog_due(row, hours) ==
    \/ row = <<>>
    \/ hours - row[1] > backlog_check_interval_hours
monitored == {g \in Games : exists(g) /\ game[g].status = "Monitoring"}
to_scan(S, run) ==
    {g \in S : \/ sweep_class(details(g).release_date, today) = "hot"
               \/ sweep_class(details(g).release_date, today) = "backlog" /\ run}
\* if run_backlog_check: last_check_setting.value = str(time.time())
stamped(row, run, hours) == IF run THEN <<hours>> ELSE row

\* The job up to its first scan; with no game to scan it ends here.
check_for_releases_run ==
    /\ job[TickJob].pc = "idle"
    /\ monitored # {}
    /\ run_backlog_check' = backlog_due(setting, clock)
    /\ IF to_scan(monitored, backlog_due(setting, clock)) = {}
       THEN /\ setting' = stamped(setting, backlog_due(setting, clock), clock)
            /\ UNCHANGED job
       ELSE /\ job' = [job EXCEPT ![TickJob] =
                          [pc |-> "ready",
                           todo |-> in_order(to_scan(monitored, backlog_due(setting, clock))),
                           snap |-> <<>>, pending |-> <<>>]]
            /\ UNCHANGED setting
    /\ UNCHANGED <<store, claims, inserted, clock>>

\* After the last scan: the timestamp and the commit.
check_for_releases_end ==
    /\ job[TickJob].pc = "swept"
    /\ setting' = stamped(setting, run_backlog_check, clock)
    /\ job' = [job EXCEPT ![TickJob] = Idle]
    /\ UNCHANGED <<store, claims, inserted, clock, run_backlog_check>>

\* Time passes between the runs of the jobs: an hour or a day.
time_passes ==
    /\ job[TickJob].pc = "idle"
    /\ \E d \in {1, 24} :
          /\ clock + d - StartClock <= MaxHours
          /\ clock' = clock + d
    /\ UNCHANGED <<store, job, claims, inserted, setting, run_backlog_check>>

library_statuses == {"Imported", "Downloaded", "Cracked (Scene)", "Cracked (P2P)"}

scan_all_library_games ==
    /\ job[ScanJob].pc = "idle"
    /\ LET S == {g \in Games : exists(g) /\ game[g].status \in library_statuses}
       IN  /\ S # {}
           /\ job' = [job EXCEPT ![ScanJob] = [pc |-> "ready", todo |-> in_order(S),
                                               snap |-> <<>>, pending |-> <<>>]]
    /\ UNCHANGED <<store, claims, inserted, timing>>

(***************************************************************************)
(* auto_download_snatcher (jobs.py): every cracked game is claimed, tried  *)
(* against its profile and the indexers, and sent to the download client   *)
(* or given its status back.                                               *)
(***************************************************************************)
\* The release types and groups a profile takes; a game's profile is read
\* when the job tries the game.
Profiles ==
    { [release_types |-> {"Scene", "Repack", "P2P"}, preferred_groups |-> {"FitGirl"},
       avoided_groups |-> {}],
      [release_types |-> {"Scene"}, preferred_groups |-> {}, avoided_groups |-> {"GROUP"}],
      [release_types |-> {"Repack"}, preferred_groups |-> {}, avoided_groups |-> {}] }

\* What search_jackett returns: the seeders of each result, -1 for a private
\* tracker that does not tell.
JackettResults == {<<>>, <<0>>, <<0, 5>>, <<-1>>}

upper_labels(labels) == {str_upper(Text[l]) : l \in labels}

\* release_name.split('-')[-1]
RECURSIVE last_segment(_)
last_segment(s) ==
    IF s = <<>> \/ s[Len(s)] = "-" THEN <<>>
    ELSE Append(last_segment(SubSeq(s, 1, Len(s) - 1)), s[Len(s)])
has_char(s, c) == \E i \in 1..Len(s) : s[i] = c

\* The type the job gives an alternative release.
alternative_type(source, release_name) ==
    IF str_upper(source) \in upper_labels({"FITGIRL", "DODI", "ELAMIGOS"}) THEN "Repack"
    ELSE IF has_char(release_name, "-") /\ ~has_char(last_segment(release_name), " ")
    THEN "Scene"
    ELSE "P2P"

\* The candidates of a game: its primary release and its alternatives.
snatch_candidates(row, alts) ==
    (IF row.release_name # "None"
     THEN {[group |-> row.release_group, type |-> row.release_type]} ELSE {})
    \cup {[group |-> a.source,
           type |-> alternative_type(Text[a.source], Text[a.release_name])] : a \in alts}

\* Whether the loop over the candidates ends with a best_candidate.
profile_match(profile, candidates) ==
    \E cand \in candidates :
        /\ cand.type \in profile.release_types
        /\ str_upper(Text[cand.group]) \notin upper_labels(profile.avoided_groups)

valid_torrents(jackett_results) == SelectSeq(jackett_results, LAMBDA seeders : seeders # 0)

\* An attempt that forgot to give the status back when no result has seeders
\* would leave the game claimed.
attempt_without_seeder_revert(row, original_status, delay_elapsed, matched, jackett_results, torrent_hash) ==
    IF ~delay_elapsed \/ ~matched \/ jackett_results = <<>>
    THEN [row EXCEPT !.status = original_status]
    ELSE IF valid_torrents(jackett_results) = <<>> THEN row
    ELSE IF torrent_hash # "None"
    THEN [row EXCEPT !.status = "Snatched", !.torrent_hash = torrent_hash]
    ELSE [row EXCEPT !.status = original_status]

\* The Game row after the attempt for a claimed game: the delay check, the
\* profile match, the search, the seeders and the download client.
snatch_attempt(row, original_status, delay_elapsed, matched, jackett_results, torrent_hash) ==
    IF ~delay_elapsed THEN [row EXCEPT !.status = original_status]
    ELSE IF ~matched THEN [row EXCEPT !.status = original_status]
    ELSE IF jackett_results = <<>> THEN [row EXCEPT !.status = original_status]
    ELSE IF valid_torrents(jackett_results) = <<>> THEN [row EXCEPT !.status = original_status]
    ELSE IF torrent_hash # "None"
    THEN [row EXCEPT !.status = "Snatched", !.torrent_hash = torrent_hash]
    ELSE [row EXCEPT !.status = original_status]

\* The job starts: the cracked games are listed.
auto_download_snatcher ==
    /\ job[SnatchJob].pc = "idle"
    /\ LET S == {g \in Games : exists(g) /\ game[g].status \in {"Cracked (Scene)", "Cracked (P2P)"}}
       IN  /\ S # {}
           /\ job' = [job EXCEPT ![SnatchJob] = [pc |-> "listed", todo |-> in_order(S),
                                                 snap |-> <<>>, pending |-> <<>>]]
    /\ UNCHANGED <<store, claims, inserted, timing>>

\* original_status = game.status; game.status = 'Snatching'; commit
snatch_claim ==
    /\ job[SnatchJob].pc = "listed"
    /\ job' = [job EXCEPT ![SnatchJob].pc = "claimed",
                          ![SnatchJob].snap = game[current(SnatchJob)]]
    /\ game' = [game EXCEPT ![current(SnatchJob)].status = "Snatching"]
    /\ UNCHANGED <<alternative_release, additional_release, claims, inserted, timing>>

after_snatch ==
    IF Len(job[SnatchJob].todo) = 1 THEN Idle
    ELSE [pc |-> "listed", todo |-> Tail(job[SnatchJob].todo), snap |-> <<>>, pending |-> <<>>]

attempted(g, profile, delay_elapsed, jackett_results, torrent_hash) ==
    game' = [game EXCEPT ![g] =
                snatch_attempt(game[g], job[SnatchJob].snap.status, delay_elapsed,
                    profile_match(profile,
                        snatch_candidates(game[g], alternatives_of(alternative_release, g))),
                    jackett_results, torrent_hash)]

\* The rest of the loop body for the claimed game, up to its commit.
snatch_finish ==
    /\ job[SnatchJob].pc = "claimed"
    /\ \E profile \in Profiles, delay_elapsed \in BOOLEAN,
          jackett_results \in JackettResults, torrent_hash \in {"None", "hash"} :
          attempted(current(SnatchJob), profile, delay_elapsed, jackett_results, torrent_hash)
    /\ job' = [job EXCEPT ![SnatchJob] = after_snatch]
    /\ UNCHANGED <<alternative_release, additional_release, claims, inserted, timing>>

\* The download request step by step: the Game is loaded, the magnet link is
\* sent to the download client (the call sleeps two seconds), and the status
\* and the hash are set and committed when the client returned a hash.
download_load(q, g) ==
    /\ job[q].pc = "idle"
    /\ exists(g)
    /\ job' = [job EXCEPT ![q] = [pc |-> "loaded", todo |-> <<g>>,
                                  snap |-> game[g], pending |-> <<>>]]
    /\ UNCHANGED <<store, claims, inserted, timing>>

\* game.status = 'Snatched'; game.torrent_hash = torrent_hash; commit: the
\* UPDATE carries the columns that differ from the loaded row.
requested(committed, snap, torrent_hash) ==
    flush_game(committed, snap, [snap EXCEPT !.status = "Snatched", !.torrent_hash = torrent_hash])

download_commit(q) ==
    /\ job[q].pc = "loaded"
    /\ \E torrent_hash \in {"None", "hash"} :
          IF torrent_hash = "None" THEN UNCHANGED game
          ELSE game' = [game EXCEPT ![current(q)] = requested(game[current(q)], job[q].snap, torrent_hash)]
    /\ job' = [job EXCEPT ![q] = Idle]
    /\ UNCHANGED <<alternative_release, additional_release, claims, inserted, timing>>

\* The game titles of the title check: up to MaxTitleWords pieces joined by
\* spaces, the pieces being plain names, numerals and words of the stoplist.
MaxTitleWords == 2
TitlePieces ==
    {"Dragon Quest", "Dragon Quest II", "II", "X", "2022", "2023", "2024", "2025",
     "edition", "ultimate", "complete"}
Titles ==
    UNION {{join([i \in 1..n |-> Text[p[i]]]) : p \in [1..n -> TitlePieces]} : n \in 1..MaxTitleWords}

\* The title check of check_source_fitgirl for a title of the result page
\* that is the game's title: the similarity and the verdict of the matcher,
\* with the title and the threshold (in tenths).
title_checked(game_title, min_similarity) ==
    [game_title |-> game_title,
     min_similarity |-> min_similarity,
     similarity |-> _calculate_title_similarity(game_title, game_title),
     valid |-> _is_valid_game_match(game_title, game_title, min_similarity)]
TitleTable == [t \in Titles \X {7, 8} |-> title_checked(t[1], t[2])]

title_match(game_title, min_similarity) ==
    /\ job' = [job EXCEPT ![MatchJob] =
                 [Idle EXCEPT !.pending = <<TitleTable[<<game_title, min_similarity>>]>>]]
    /\ UNCHANGED <<store, claims, inserted, timing>>

Next ==
    \/ \E g \in Games : add_game_confirm(g)
    \/ \E g \in Games : library_import_confirm(g)
    \/ \E q \in Requests, g \in Games : add_game_check(q, g)
    \/ \E q \in Requests, g \in Games : library_import_check(q, g)
    \/ \E q \in Requests : confirm_insert(q)
    \/ \E g \in Games : manual_scan_game(g)
    \/ \E g \in Games : download(g)
    \/ \E q \in Requests, g \in Games : download_load(q, g)
    \/ \E q \in Requests : download_commit(q)
    \/ \E game_title \in Titles, min_similarity \in {7, 8} : title_match(game_title, min_similarity)
    \/ \E g \in Games : activity_action(g)
    \/ update_download_statuses
    \/ update_download_statuses_raising
    \/ process_completed_downloads
    \/ import_claim
    \/ import_finish
    \/ import_fail
    \/ \E r \in Jobs : queue_query(r)
    \/ \E r \in Jobs : queue_claim(r)
    \/ check_for_releases
    \/ check_for_releases_run
    \/ check_for_releases_end
    \/ time_passes
    \/ scan_all_library_games
    \/ auto_download_snatcher
    \/ snatch_claim
    \/ snatch_finish
    \/ \E r \in Jobs \cup {TickJob} : pass_begin(r)
    \/ \E r \in Jobs \cup {TickJob} : pass_no_results(r)
    \/ \E r \in Jobs \cup {TickJob} : pass_stage(r)
    \/ \E r \in Jobs : pass_gather_failing(r)
    \/ \E r \in Jobs \cup {TickJob} : pass_commit(r)
    \/ \E r \in Jobs \cup {TickJob} : pass_fail(r)

Spec == Init /\ [][Next]_vars

(***************************************************************************)
(* The engine, one job at a time: requests and the download jobs come      *)
(* between the jobs, one queue worker drains the queue, and a pass may     *)
(* raise.  The first game is also imported from the library and            *)
(* downloaded; the second is only added and scanned.                       *)
(***************************************************************************)
AllIdle == \A r \in Jobs : job[r].pc = "idle"

EngineNext ==
    \/ AllIdle /\ \E g \in Games : add_game_confirm(g)
    \/ AllIdle /\ library_import_confirm(1)
    \/ AllIdle /\ \E g \in Games : manual_scan_game(g)
    \/ AllIdle /\ download(1)
    \/ AllIdle /\ update_download_statuses
    \/ AllIdle /\ process_completed_downloads
    \/ AllIdle /\ queue_query(1)
    \/ queue_claim(1)
    \/ AllIdle /\ check_for_releases
    \/ AllIdle /\ scan_all_library_games
    \/ \E r \in Jobs : pass_begin(r)
    \/ \E r \in Jobs : pass_no_results(r)
    \/ \E r \in Jobs : pass_stage(r)
    \/ \E r \in Jobs : pass_commit(r)
    \/ \E r \in Jobs : pass_fail(r)

EngineSpec == Init /\ [][EngineNext]_vars

(***************************************************************************)
(* The immediate-check queue with its workers running at once, for the     *)
(* second game.                                                            *)
(***************************************************************************)
QueueNext ==
    \/ add_game_confirm(2)
    \/ manual_scan_game(2)
    \/ \E r \in QueueWorkers : queue_query(r)
    \/ \E r \in QueueWorkers : queue_claim(r)
    \/ \E r \in QueueWorkers : pass_begin(r)
    \/ \E r \in QueueWorkers : pass_no_results(r)
    \/ \E r \in QueueWorkers : pass_stage(r)
    \/ \E r \in QueueWorkers : pass_commit(r)

QueueSpec == Init /\ [][QueueNext]_vars

(***************************************************************************)
(* One queue worker that keeps ticking and whose passes all return, for    *)
(* the first game: the scheduler runs process_release_check_queue every    *)
(* five seconds, so each of its steps is taken when it stays enabled.      *)
(***************************************************************************)
LiveNext ==
    \/ add_game_confirm(1)
    \/ manual_scan_game(1)
    \/ queue_query(1)
    \/ queue_claim(1)
    \/ pass_begin(1)
    \/ pass_no_results(1)
    \/ pass_stage(1)
    \/ pass_commit(1)

LiveSpec ==
    /\ Init
    /\ [][LiveNext]_vars
    /\ WF_vars(queue_query(1))
    /\ WF_vars(queue_claim(1))
    /\ WF_vars(pass_begin(1))
    /\ WF_vars(pass_no_results(1))
    /\ WF_vars(pass_stage(1))
    /\ WF_vars(pass_commit(1))

(***************************************************************************)
(* Properties.                                                             *)
(***************************************************************************)
\* The rows a game's releases are made of.
RowsOf(S) == {S[i] : i \in 1..Len(S)}
add_ons_of(adds, g) == {a \in adds : a.game_id = g}

same_releases(a, b, g) ==
    /\ a.game[g].release_name = b.game[g].release_name
    /\ a.game[g].release_group = b.game[g].release_group
    /\ a.game[g].status = b.game[g].status
    /\ alternative_rows(a.alternative_release, g) = alternative_rows(b.alternative_release, g)
    /\ add_ons_of(a.additional_release, g) = add_ons_of(b.additional_release, g)

no_duplicate_names(d, g) ==
    /\ \A a \in alternatives_of(d.alternative_release, g) :
          CopiesIn(a, d.alternative_release) = 1
    /\ \A a, b \in alternatives_of(d.alternative_release, g) :
          a.release_name = b.release_name => a = b
    /\ \A a, b \in add_ons_of(d.additional_release, g) :
          a.release_name = b.release_name => a = b

settled(once, g, F) ==
    /\ same_releases(process_all_releases_for_game(once, g, F), once, g)
    /\ no_duplicate_names(once, g)

\* C1: a second pass over the same feed leaves what the first pass left: the
\* same primary release (name, group, status), the same alternative rows
\* without duplicate names, and the same add-on rows without duplicate
\* names, whatever status the game started from.
C1_ReconcileIdempotent ==
    \A g \in Games : exists(g) =>
        \A F \in Feeds : settled(process_all_releases_for_game(db, g, F), g, F)

\* The pass of job r on an Imported game with a primary release ends in this
\* step.
imported_pass_ends(r) ==
    /\ job[r].pc = "staged"
    /\ job[r].snap.status = "Imported"
    /\ job[r].snap.release_name # "None"
    /\ job'[r].pc # "staged"

\* C2: a pass over an Imported game that has a primary release leaves
\* release_name, release_group and status as they are, deletes no
\* alternative row, and inserts only rows whose name was not recorded for
\* the game before.
C2_ImportedPrimaryProtected ==
    [][\A r \in Jobs : imported_pass_ends(r) =>
          /\ game'[current(r)].release_name = game[current(r)].release_name
          /\ game'[current(r)].release_group = game[current(r)].release_group
          /\ game'[current(r)].status = game[current(r)].status
          /\ \A a \in BagToSet(alternative_release) :
                CopiesIn(a, alternative_release') >= CopiesIn(a, alternative_release)
          /\ \A a \in BagToSet(alternative_release') :
                CopiesIn(a, alternative_release') > CopiesIn(a, alternative_release)
                => /\ a.game_id = current(r)
                   /\ a.release_name \notin alternative_names(alternative_release, current(r))
      ]_vars

\* An Imported game whose primary is the repack and which has the scene
\* release as an alternative: the scene release outranks the repack, so only
\* a pass through the Imported branch records it that way.
C2_Witness ==
    /\ exists(1)
    /\ game[1].status = "Imported"
    /\ game[1].release_name = "Dragon Quest II Repack"
    /\ "Dragon Quest II Definitive Edition-GROUP" \in alternative_names(alternative_release, 1)

\* C3: once a game is Imported, no request, tick, sweep or pass changes its
\* status or its primary release fields.
C3_ImportedIsTerminal ==
    [][\A g \in Games : (exists(g) /\ game[g].status = "Imported") =>
          /\ game'[g].status = "Imported"
          /\ game'[g].release_name = game[g].release_name
          /\ game'[g].release_group = game[g].release_group
          /\ game'[g].release_type = game[g].release_type
      ]_vars

\* C4: one setting of needs_release_check is claimed by at most one queue
\* worker.
C4_SingleClaim == \A g \in Games : claims[g] <= 1

pass_commits(r, g) ==
    /\ job[r].pc \in {"gathering", "staged"}
    /\ current(r) = g
    /\ pass_commit(r) \/ pass_no_results(r)

\* C6: needs_release_check goes from set to clear only in a step in which a
\* pass for the game has run and commits; a pass of a queue worker that
\* fails leaves the flag set.
C6_FlagClearedOnlyByCommittedPass ==
    [][/\ \A g \in Games :
             (exists(g) /\ game[g].needs_release_check /\ ~game'[g].needs_release_check)
             => \E r \in Jobs : pass_commits(r, g)
       /\ \A r \in QueueWorkers : pass_fail(r) => game'[current(r)].needs_release_check
      ]_vars

\* The pass of job r on a Processing game commits in this step, its feed not
\* empty and without a base-game candidate.
processing_pass_without_candidate(r) ==
    /\ job[r].pc = "staged"
    /\ job[r].snap.status = "Processing"
    /\ ScanTable[<<current(r), job[r].pending.feed>>].sorted_games = <<>>
    /\ ~integrity_error(additional_release, job[r].pending.new_adds)
    /\ pass_commit(r)

\* C7: a pass over a Processing game whose feed is not empty and holds no
\* base-game candidate leaves the game Monitoring.
C7_ProcessingFallsBackToMonitoring ==
    [][\A r \in Jobs : processing_pass_without_candidate(r) =>
          game'[current(r)].status = "Monitoring"
      ]_vars

\* C8: with the queue worker ticking and every pass returning, a Processing
\* game leaves Processing.
C8_ProcessingIsTransient ==
    \A g \in Games :
        (exists(g) /\ game[g].status = "Processing")
            ~> (exists(g) /\ game[g].status # "Processing")

\* The catalogue entries outside the window of a game: released more than 30
\* days before its date or more than 1460 days after it.
hard_rejected(g, i) ==
    /\ details(g).release_date.kind = "date"
    /\ Catalog[i].timestamp # 0
    /\ \/ delta_days(details(g).release_date, Catalog[i].timestamp) < -30
       \/ delta_days(details(g).release_date, Catalog[i].timestamp) > 1460
HardRejects == {p \in Games \X (1..Len(Catalog)) : hard_rejected(p[1], p[2])}
HardRejectScores ==
    {_calculate_relevancy_score(details(p[1]).release_date, Catalog[p[2]].timestamp) :
        p \in HardRejects}
HardRejectNames == {<<p[1], clean_name_of(Catalog[p[2]].release)>> : p \in HardRejects}

\* C9: an entry outside the window scores -1000 and is neither the primary
\* release nor an alternative of the game.
C9_HardRejectNeverRecorded ==
    /\ HardRejectScores \subseteq {-1000}
    /\ \A p \in HardRejectNames : exists(p[1]) =>
          /\ game[p[1]].release_name # p[2]
          /\ p[2] \notin alternative_names(alternative_release, p[1])

\* A pass for the first game whose feed holds the release from 45 days before
\* the date next to the scene release, and which has made the scene release
\* the primary.
C9_Witness ==
    \E r \in Jobs :
        /\ job[r].pc = "staged"
        /\ current(r) = 1
        /\ <<1, 2>> \in HardRejects
        /\ job[r].pending.feed = {1, 2}
        /\ job[r].pending.row.release_name = "Dragon Quest II Definitive Edition-GROUP"
        /\ job[r].pending.new_alts = EmptyBag

\* The names the sources hold, cleaned, that do not carry the Roman numeral
\* of a game's title.
CleanNames == {clean_name_of(Catalog[i].release) : i \in 1..Len(Catalog)}
numeral_missing(g, name) ==
    /\ roman_search(Text[details(g).official_title]) # <<>>
    /\ roman_search(Text[name]) # roman_search(Text[details(g).official_title])
NumeralMismatches == {p \in Games \X CleanNames : numeral_missing(p[1], p[2])}
AcceptsDefinitiveEdition ==
    \E F \in Feeds :
        \E i \in 1..Len(ScanTable[<<1, F>>].sorted_games) :
            ScanTable[<<1, F>>].sorted_games[i].release_name
                = "Dragon Quest II Definitive Edition-GROUP"

\* C10: for a title with a Roman numeral, a release is recorded as primary or
\* alternative only when it carries the same numeral: "Dragon Quest II"
\* never records "Dragon Quest III Remake-GROUP" and does accept "Dragon
\* Quest II Definitive Edition-GROUP".
C10_RomanNumeralGuard ==
    /\ <<1, "Dragon Quest III Remake-GROUP">> \in NumeralMismatches
    /\ AcceptsDefinitiveEdition
    /\ \A p \in NumeralMismatches : exists(p[1]) =>
          /\ game[p[1]].release_name # p[2]
          /\ p[2] \notin alternative_names(alternative_release, p[1])

(***************************************************************************)
(* The engine over the catalogue without its edge entries, for both games: *)
(* one queue worker, requests between its jobs.                            *)
(***************************************************************************)
CatalogNext ==
    \/ AllIdle /\ \E g \in Games : add_game_confirm(g)
    \/ AllIdle /\ \E g \in Games : manual_scan_game(g)
    \/ AllIdle /\ queue_query(1)
    \/ queue_claim(1)
    \/ pass_begin(1)
    \/ pass_no_results(1)
    \/ pass_stage_of(1, CatalogFeeds)
    \/ pass_commit(1)

CatalogSpec == Init /\ [][CatalogNext]_vars

\* The names of the catalogue that carry an add-on keyword as a token.
AddOnEntries ==
    {i \in 1..Len(Catalog) :
        \E k \in {"UPDATE", "DLC", "PATCH", "CRACKFIX", "TRAINER"} :
            Text[k] \in upper_words(Text[clean_name_of(Catalog[i].release)])}
AddOnNames == {clean_name_of(Catalog[i].release) : i \in AddOnEntries}
names_of(items) == {items[i].release_name : i \in 1..Len(items)}
\* Every pass classifies them as add-ons and never as base-game candidates.
AddOnsClassified ==
    \A p \in Games \X AllFeeds :
        /\ names_of(ScanTable[p].base_game_candidates) \cap AddOnNames = {}
        /\ \A i \in p[2] \cap AddOnEntries :
              clean_name_of(Catalog[i].release) \in names_of(ScanTable[p].add_ons)

pass_reaches_commit(r) ==
    /\ job[r].pc = "staged"
    /\ pass_commit(r)
\* The names of the add-ons with a type that the pass of job r has found.
add_on_names_found(r) ==
    {a.release_name : a \in {x \in RowsOf(ScanTable[<<current(r), job[r].pending.feed>>].add_ons) :
                                x.release_type # "None"}}

\* C12: after a pass, each add-on name the pass has found is the name of
\* exactly one AdditionalRelease row, also when several adapters report it,
\* when it was found before, or when its raw names differ only by HTML
\* escaping.
C12_OneRowPerAddOnName ==
    [][\A r \in Jobs : pass_reaches_commit(r) =>
          \A name \in add_on_names_found(r) :
              Cardinality({a \in additional_release' : a.release_name = name}) = 1
      ]_vars

\* The names of the catalogue that carry a non-PC platform marker as a token.
PlatformNames ==
    {clean_name_of(Catalog[i].release) : i \in
        {j \in 1..Len(Catalog) :
            \E k \in {"MACOS", "LINUX", "NSW", "PS4", "PS5", "XBOX", "WII", "NGC", "PS2DVD"} :
                Text[k] \in upper_words(Text[clean_name_of(Catalog[j].release)])}}

\* C13: a release with a non-PC platform marker is never the primary release
\* of a game, also when no other candidate survives.
C13_PlatformReleaseNeverPrimary ==
    /\ "Dragon.Quest.II.NSW-VENOM" \in PlatformNames
    /\ \A g \in Games : exists(g) => game[g].release_name \notin PlatformNames

\* The pass of job r, for a game that is not Imported, commits a feed with a
\* base-game candidate in this step.
primary_pass_commits(r) ==
    /\ job[r].pc = "staged"
    /\ job[r].snap.status # "Imported"
    /\ ScanTable[<<current(r), job[r].pending.feed>>].base_game_candidates # <<>>
    /\ ~integrity_error(additional_release, job[r].pending.new_adds)
    /\ pass_commit(r)

\* The order of the ranking: PC first, then the score, then the tier.
tier_rank(type) == CASE type = "Scene" -> 2 [] type = "Repack" -> 1 [] OTHER -> 0
outranks(a, b) ==
    \/ a.is_pc /\ ~b.is_pc
    \/ a.is_pc = b.is_pc /\ a.score > b.score
    \/ a.is_pc = b.is_pc /\ a.score = b.score /\ tier_rank(a.type) > tier_rank(b.type)
\* The alternative rows for every candidate but the i-th.
rows_but(g, cands, i) ==
    rows_to_bag([k \in 1..(Len(cands) - 1) |->
                    [game_id |-> g,
                     release_name |-> cands[IF k < i THEN k ELSE k + 1].release_name,
                     source |-> cands[IF k < i THEN k ELSE k + 1].source]])
\* After the step the i-th candidate is the primary of game g, no candidate
\* outranks it, and the others are the alternatives of g.
selected(g, cands, i) ==
    /\ game'[g].release_name = cands[i].release_name
    /\ game'[g].release_group = cands[i].source
    /\ game'[g].release_type = cands[i].type
    /\ \A k \in 1..Len(cands) : ~outranks(cands[k], cands[i])
    /\ alternative_rows(alternative_release', g) = rows_but(g, cands, i)
maximum_selected(g, cands) == \E i \in 1..Len(cands) : selected(g, cands, i)

\* C14: the primary a pass assigns is a maximum of the surviving candidates
\* under the order (is PC, score, tier) with Scene over Repack over P2P, and
\* every other survivor becomes an alternative.
C14_PrimaryIsMaximum ==
    [][\A r \in Jobs : primary_pass_commits(r) =>
          maximum_selected(current(r),
              ScanTable[<<current(r), job[r].pending.feed>>].base_game_candidates)
      ]_vars

\* The repack has won over a P2P release of equal score, which is the
\* alternative.
C14_Witness ==
    /\ exists(1)
    /\ game[1].status = "Cracked (P2P)"
    /\ game[1].release_name = "Dragon Quest II Repack"
    /\ game[1].release_type = "Repack"
    /\ alternative_names(alternative_release, 1) = {"Dragon.Quest.II.A&B-P2P"}

(***************************************************************************)
(* The library scan and one queue worker running at once, for the second   *)
(* game: the scheduler runs its jobs in a thread pool, and a request may    *)
(* come at any moment.                                                     *)
(***************************************************************************)
SweepNext ==
    \/ library_import_confirm(2)
    \/ manual_scan_game(2)
    \/ scan_all_library_games
    \/ queue_query(1)
    \/ queue_claim(1)
    \/ \E r \in {1, ScanJob} : pass_begin(r)
    \/ \E r \in {1, ScanJob} : pass_no_results(r)
    \/ \E r \in {1, ScanJob} : pass_stage(r)
    \/ \E r \in {1, ScanJob} : pass_commit(r)

SweepSpec == Init /\ [][SweepNext]_vars

\* Job r is inside process_all_releases_for_game.
in_pass(r) == job[r].pc \in {"gathering", "staged"}

\* C15: no two passes of the engine for one game are in flight at the same
\* time.
C15_NoConcurrentPasses ==
    \A r1, r2 \in Jobs :
        (r1 # r2 /\ in_pass(r1) /\ in_pass(r2)) => current(r1) # current(r2)

(***************************************************************************)
(* Downloads of the first game: it is added and scanned by the queue       *)
(* worker, sent to the download client, polled, removed on the activity    *)
(* page, and imported when complete.                                       *)
(***************************************************************************)
DownloadNext ==
    \/ AllIdle /\ add_game_confirm(1)
    \/ AllIdle /\ manual_scan_game(1)
    \/ AllIdle /\ download(1)
    \/ AllIdle /\ activity_action(1)
    \/ AllIdle /\ update_download_statuses
    \/ AllIdle /\ process_completed_downloads
    \/ AllIdle /\ queue_query(1)
    \/ queue_claim(1)
    \/ pass_begin(1)
    \/ pass_no_results(1)
    \/ pass_stage(1)
    \/ pass_commit(1)

DownloadSpec == Init /\ [][DownloadNext]_vars

\* The download handle of game g is cleared in this step.
download_gone(g) ==
    /\ exists(g)
    /\ game[g].torrent_hash # "None"
    /\ game'[g].torrent_hash = "None"

\* C16: when the download of a game is gone from the client and its handle
\* is cleared, the status becomes Cracked (Scene) for a Scene primary and
\* Cracked (P2P) otherwise, and never Monitoring.
C16_DownloadGoneRevertsToCracked ==
    [][\A g \in Games : download_gone(g) =>
          /\ game'[g].status = IF game[g].release_type = "Scene"
                               THEN "Cracked (Scene)" ELSE "Cracked (P2P)"
          /\ game'[g].status # "Monitoring"
      ]_vars

(***************************************************************************)
(* The automatic download job and the queue worker, one job at a time, for *)
(* the first game; a request may come at any moment.                       *)
(***************************************************************************)
SnatchNext ==
    \/ add_game_confirm(1)
    \/ manual_scan_game(1)
    \/ AllIdle /\ queue_query(1)
    \/ queue_claim(1)
    \/ pass_begin(1)
    \/ pass_no_results(1)
    \/ pass_stage(1)
    \/ pass_commit(1)
    \/ AllIdle /\ auto_download_snatcher
    \/ snatch_claim
    \/ snatch_finish

SnatchSpec == Init /\ [][SnatchNext]_vars

\* The job claims its next game in this step, and is done with the game it
\* has claimed.
snatcher_claims == job[SnatchJob].pc = "listed" /\ job'[SnatchJob].pc = "claimed"
snatcher_done == job[SnatchJob].pc = "claimed" /\ job'[SnatchJob].pc # "claimed"
submitted(g) == game'[g].status = "Snatched" /\ game'[g].torrent_hash # "None"

\* C17: the job remembers the status a game has when it claims it; when it
\* is done with the game, the game is either Snatched with a download handle
\* or has that status again; and no game is Snatching unless the job holds
\* it.
C17_FailedSnatchRevertsStatus ==
    [][/\ snatcher_claims =>
             /\ job'[SnatchJob].snap.status = game[current(SnatchJob)].status
             /\ game'[current(SnatchJob)].status = "Snatching"
       /\ snatcher_done =>
             \/ submitted(current(SnatchJob))
             \/ /\ game'[current(SnatchJob)].status = job[SnatchJob].snap.status
                /\ game'[current(SnatchJob)].torrent_hash = game[current(SnatchJob)].torrent_hash
       /\ job'[SnatchJob].pc # "claimed" =>
             \A g \in DOMAIN game' : game'[g].status # "Snatching"
      ]_vars

\* The job has claimed a game that was Cracked (Scene) and has alternatives
\* to try.
C17_Witness ==
    /\ job[SnatchJob].pc = "claimed"
    /\ job[SnatchJob].snap.status = "Cracked (Scene)"
    /\ game[current(SnatchJob)].status = "Snatching"
    /\ alternatives_of(alternative_release, current(SnatchJob)) # {}

\* The pass of job r ends in this step because the sources returned nothing.
zero_result_pass(r) ==
    /\ job[r].pc = "gathering"
    /\ pass_no_results(r)

\* C18: a pass with zero raw results makes a Processing game Monitoring and
\* leaves every other status as it is; the primary release fields and the
\* release rows do not change.
C18_ZeroResults ==
    [][\A r \in Jobs : zero_result_pass(r) =>
          /\ game'[current(r)].status =
                IF game[current(r)].status = "Processing" THEN "Monitoring"
                ELSE game[current(r)].status
          /\ game'[current(r)].release_name = game[current(r)].release_name
          /\ game'[current(r)].release_group = game[current(r)].release_group
          /\ game'[current(r)].release_type = game[current(r)].release_type
          /\ UNCHANGED <<alternative_release, additional_release>>
      ]_vars

\* A game is Monitoring: it was Processing when a pass found nothing.
C18_Witness ==
    /\ exists(1)
    /\ game[1].status = "Monitoring"
    /\ game[1].release_name = "None"
    /\ ~game[1].needs_release_check

\* C19: after a pass that assigns a primary release to a game that is not
\* Imported, the tier of the game is the tier of the top candidate, and the
\* status is Cracked (Scene) exactly when that tier is Scene and Cracked
\* (P2P) when it is Repack or P2P.
C19_CrackedStatusByTier ==
    [][\A r \in Jobs : primary_pass_commits(r) =>
          /\ game'[current(r)].release_type =
                ScanTable[<<current(r), job[r].pending.feed>>].sorted_games[1].type
          /\ game'[current(r)].release_type \in {"Scene", "Repack", "P2P"}
          /\ game'[current(r)].status = "Cracked (Scene)"
                <=> game'[current(r)].release_type = "Scene"
          /\ game'[current(r)].release_type \in {"Repack", "P2P"}
                => game'[current(r)].status = "Cracked (P2P)"
      ]_vars

\* A game that a pass has left with a scene primary, and one with a repack.
C19_Witness ==
    /\ exists(1)
    /\ game[1].release_type = "Scene"
    /\ game[1].status = "Cracked (Scene)"
    /\ game[1].release_group = "GROUP"
    /\ "Dragon Quest II Repack" \in alternative_names(alternative_release, 1)

\* The rows the ranked survivors of a pass other than the first stand for.
survivor_rows(g, survivors) ==
    rows_to_bag([k \in 1..(Len(survivors) - 1) |->
                    [game_id |-> g, release_name |-> survivors[k + 1].release_name,
                     source |-> survivors[k + 1].source]])
\* After the step the alternatives of game g are the survivors but the
\* primary, and no other row of before the step is left.
rebuilt(g, survivors) ==
    /\ alternative_rows(alternative_release', g) = survivor_rows(g, survivors)
    /\ \A a \in alternatives_of(alternative_release, g) :
          a \in alternatives_of(alternative_release', g)
             => \E k \in 2..Len(survivors) : survivors[k].release_name = a.release_name

\* C20: after a pass that selects a primary for a game that is not Imported,
\* the AlternativeRelease rows of the game are exactly the survivors survivors of
\* that pass other than the primary, and no row of an earlier pass remains
\* unless it is a survivor again.
C20_AlternativesRebuilt ==
    [][\A r \in Jobs : primary_pass_commits(r) =>
          rebuilt(current(r), ScanTable[<<current(r), job[r].pending.feed>>].sorted_games)
      ]_vars

\* A pass is about to replace the alternatives of an earlier pass by others:
\* a stored row goes and a new one comes.
C20_Witness ==
    \E r \in Jobs :
        /\ job[r].pc = "staged"
        /\ job[r].snap.status # "Imported"
        /\ job[r].pending.new_alts # EmptyBag
        /\ \E a \in BagToSet(job[r].pending.deleted) :
              /\ a \in BagToSet(alternative_release)
              /\ a \notin BagToSet(job[r].pending.new_alts)

\* The number of AlternativeRelease rows of game g that carry the name n.
RECURSIVE copies_sum(_, _)
copies_sum(rows, alts) ==
    IF rows = {} THEN 0
    ELSE LET a == CHOOSE x \in rows : TRUE
         IN  CopiesIn(a, alts) + copies_sum(rows \ {a}, alts)
rows_named(alts, g, n) ==
    copies_sum({a \in alternatives_of(alts, g) : a.release_name = n}, alts)

\* C21: no game has two AlternativeRelease rows with the same release name.
C21_AlternativeNamesUnique ==
    \A g \in Games :
        \A n \in alternative_names(alternative_release, g) :
            rows_named(alternative_release, g, n) = 1

\* The primary release fields of a Game row, and whether each is null.
primary_fields(row) == <<row.release_name, row.release_group, row.release_type>>
all_null(fields) == \A i \in 1..Len(fields) : fields[i] = "None"
all_set(fields) == \A i \in 1..Len(fields) : fields[i] # "None"

EdgeNext ==
    \/ AllIdle /\ \E g \in Games : add_game_confirm(g)
    \/ AllIdle /\ \E g \in Games : manual_scan_game(g)
    \/ AllIdle /\ queue_query(1)
    \/ queue_claim(1)
    \/ pass_begin(1)
    \/ pass_no_results(1)
    \/ pass_stage_of(1, EdgeFeeds)
    \/ pass_commit(1)

EdgeSpec == Init /\ [][EdgeNext]_vars

\* The adapters in the order the gather step queries them, with the tier
\* each stands for and the label it gives a release without a group.
AdapterOrder == <<"club", "net", "xrel", "fitgirl">>
adapter_tier(adapter) ==
    CASE adapter = "xrel" -> "P2P" [] adapter = "fitgirl" -> "Repack" [] OTHER -> "Scene"
adapter_label(adapter, group) ==
    IF adapter = "fitgirl" THEN "FitGirl"
    ELSE IF group = "" THEN adapter_tier(adapter) ELSE group
\* What one adapter returns for a feed.
returned(game_title, F, adapter) ==
    IF adapter = "fitgirl" THEN check_source_fitgirl(game_title, F)
    ELSE adapter_results(F, adapter)
returns_name(game_title, F, adapter, name) ==
    \E k \in 1..Len(returned(game_title, F, adapter)) :
        returned(game_title, F, adapter)[k].release = name
\* The place in the order of the first adapter that returns the name.
first_adapter(game_title, F, name) ==
    CHOOSE k \in 1..Len(AdapterOrder) :
        /\ returns_name(game_title, F, AdapterOrder[k], name)
        /\ \A j \in 1..(k - 1) : ~returns_name(game_title, F, AdapterOrder[j], name)
\* The entry of all_releases for a name is what that adapter returned for it.
kept_from(entry, adapter, results) ==
    \E k \in 1..Len(results) :
        /\ results[k].release = entry.release
        /\ entry.source = adapter_label(adapter, results[k].group)
        /\ entry.type = adapter_tier(adapter)
        /\ entry.timestamp = results[k].timestamp
first_seen_kept(game_title, F, all_releases) ==
    \A i \in 1..Len(all_releases) :
        kept_from(all_releases[i],
                  AdapterOrder[first_adapter(game_title, F, all_releases[i].release)],
                  returned(game_title, F,
                      AdapterOrder[first_adapter(game_title, F, all_releases[i].release)]))
\* The feeds whose gathered entries are not those of the first adapter.
OverwrittenFeeds ==
    {p \in Games \X AllFeeds :
        ~first_seen_kept(details(p[1]).official_title, p[2],
                         gather(details(p[1]).official_title, p[2]))}

\* C23: a raw name that more than one adapter returns in one pass keeps the
\* source label, the tier and the timestamp of the adapter queried first, in
\* the order scene pre-database 1, scene pre-database 2, release archive,
\* repack site.
C23_FirstSeenSourceWins ==
    \A r \in Jobs :
        job[r].pc = "staged" => <<current(r), job[r].pending.feed>> \notin OverwrittenFeeds

\* A pass has staged the name that the second pre-database and the release
\* archive both return, with the label and the tier of the pre-database.
C23_Witness ==
    \E r \in Jobs :
        /\ job[r].pc = "staged"
        /\ job[r].pending.feed =
              {i \in EdgeEntries : /\ Catalog[i].release = "Dragon.Quest.II-RUNE"
                                   /\ Catalog[i].adapter \in {"net", "xrel"}}
        /\ job[r].pending.row.release_name = "Dragon.Quest.II-RUNE"
        /\ job[r].pending.row.release_group = "Scene"
        /\ job[r].pending.row.release_type = "Scene"

(***************************************************************************)
(* The engine with adapters that fail, for the first game: one queue       *)
(* worker, requests between its jobs.                                      *)
(***************************************************************************)
SourceNext ==
    \/ AllIdle /\ add_game_confirm(1)
    \/ AllIdle /\ manual_scan_game(1)
    \/ AllIdle /\ queue_query(1)
    \/ queue_claim(1)
    \/ pass_begin(1)
    \/ pass_gather_failing(1)
    \/ pass_commit(1)

SourceSpec == Init /\ [][SourceNext]_vars

\* What the adapters that do not fail return of a feed.
surviving(F, failed) == {i \in F : Catalog[i].adapter \notin failed}
\* The feeds and failures for which a pass does not see what it would see
\* had the failing adapters returned nothing.
FailureLeaks ==
    {p \in Games \X EdgeFeeds \X SUBSET Adapters :
        FailingScans[p] # ScanTable[<<p[1], surviving(p[2], p[3])>>]}
\* The staged changes of job r are those of a pass over the feed F.
staged_as_over(r, F) ==
    LET expected == stage(db, current(r), job[r].snap, F)
    IN  /\ job[r].pending.row = expected.row
        /\ job[r].pending.deleted = expected.deleted
        /\ job[r].pending.new_alts = expected.new_alts
        /\ job[r].pending.new_adds = expected.new_adds

\* C24: whatever adapters fail during a pass, each contributes an empty
\* result and the pass goes on: what it gathers, and what it then stages, is
\* what a pass would gather and stage had the failing adapters returned
\* nothing.
C24_SourceFailureContained ==
    \A r \in Jobs :
        /\ job[r].pc = "gathering" =>
              \A F \in EdgeFeeds : \A failed \in SUBSET Adapters :
                  <<current(r), F, failed>> \notin FailureLeaks
        /\ job[r].pc = "staged" /\ "failed" \in DOMAIN job[r].pending =>
              staged_as_over(r, surviving(job[r].pending.feed, job[r].pending.failed))

\* The first pre-database has failed during a pass whose feed holds its
\* result and the release archive's: the pass has staged the archive's.
C24_Witness ==
    \E r \in Jobs :
        /\ job[r].pc = "staged"
        /\ "failed" \in DOMAIN job[r].pending
        /\ job[r].pending.failed = {"club"}
        /\ job[r].pending.feed =
              {i \in EdgeEntries : /\ Catalog[i].release = "Dragon.Quest.II-RUNE"
                                   /\ Catalog[i].adapter \in {"club", "xrel"}}
        /\ job[r].pending.row.release_group = "P2P"
        /\ job[r].pending.row.status = "Cracked (P2P)"

\* The score table of the specification, by the number of days from the
\* release day of the game to the day of the candidate.
\* The timestamps are seconds that datetime.fromtimestamp can turn into a
\* date; one past year 9999 raises there and is scored 0 by the except clause.
ScoreDeltas == (-40)..1500
score_table(d) ==
    CASE d < -30 -> -1000
      [] -30 <= d /\ d <= 90 -> 200
      [] 91 <= d /\ d <= 365 -> 150
      [] 366 <= d /\ d <= 730 -> 100
      [] 731 <= d /\ d <= 1095 -> 50
      [] 1096 <= d /\ d <= 1460 -> 25
      [] d > 1460 -> -1000
\* The buckets that hold the day difference d.
buckets_of(d) ==
    {b \in {<<-30, 90>>, <<91, 365>>, <<366, 730>>, <<731, 1095>>, <<1096, 1460>>} :
        b[1] <= d /\ d <= b[2]}
\* A timestamp on the day d days from the release day: its first and its
\* last second.
seconds_of(release_day, d) ==
    {(release_day + d) * 86400, (release_day + d) * 86400 + 86399}
score_as_table(release_date) ==
    /\ \A d \in ScoreDeltas : \A t \in seconds_of(release_date.day, d) :
          _calculate_relevancy_score(release_date, t) = score_table(d)
    /\ \A d \in ScoreDeltas : Cardinality(buckets_of(d)) <= 1
    /\ \A d \in (-30)..1459 : \A t \in seconds_of(release_date.day, d) :
          \A u \in seconds_of(release_date.day, d + 1) :
              _calculate_relevancy_score(release_date, u)
                  <= _calculate_relevancy_score(release_date, t)
    /\ \A d \in ScoreDeltas : \A t \in seconds_of(release_date.day, d) :
          _calculate_relevancy_score(NoDate, t) = 0
    /\ _calculate_relevancy_score(release_date, 0) = 0
\* The games whose candidates are not scored as the table says.
ScoreMismatches == {g \in Games : ~score_as_table(details(g).release_date)}

\* C25: the relevancy score is 0 when the release date or the timestamp is
\* missing; otherwise, by the days from the release day to the candidate's
\* day, it is -1000 below -30, 200 up to 90, 150 up to 365, 100 up to 730, 50
\* up to 1095, 25 up to 1460 and -1000 above; the buckets do not overlap and
\* the score does not increase with the days over [-30, 1460].
C25_ScoreTable == \A g \in Games : exists(g) => g \notin ScoreMismatches

\* A release of the game's day is the primary and one of a hundred days
\* later, scored lower, its alternative.
C25_Witness ==
    /\ exists(1)
    /\ game[1].release_name = "Dragon Quest II Definitive Edition-GROUP"
    /\ alternative_names(alternative_release, 1) = {"Dragon Quest III Remake-GROUP"}
    /\ _calculate_relevancy_score(details(1).release_date, (19991 + 100) * 86400) = 150

(***************************************************************************)
(* The confirmations, served by two request threads at once: the duplicate *)
(* check of one request may come before the commit of the other.           *)
(***************************************************************************)
ConfirmNext ==
    \/ \E q \in Requests, g \in Games : add_game_check(q, g)
    \/ \E q \in Requests, g \in Games : library_import_check(q, g)
    \/ \E q \in Requests : confirm_insert(q)

ConfirmSpec == Init /\ [][ConfirmNext]_vars

\* C26: in every reachable state of the store there is at most one Game row
\* per external catalog id, however the add-game confirmations and the
\* library-import confirmations for the id interleave.
C26_OneGamePerCatalogId == \A g \in Games : inserted[g] <= 1

\* Two confirmations of one id passed the duplicate check, the first has
\* committed its row and the second is about to insert.
C26_Witness ==
    \E q \in Requests :
        /\ job[q].pc = "checked"
        /\ exists(current(q))
        /\ inserted[current(q)] = 1
        /\ game[current(q)].status # job[q].pending.status

\* The names of the add-ons found by the pass of job r that are rows already,
\* of this game or of another.
stored_add_on_names(r) ==
    {name \in add_on_names_found(r) : \E a \in additional_release : a.release_name = name}

\* C27: a pass whose feed holds an add-on name that is an AdditionalRelease
\* row already, of this game or of any other, inserts no row for that name,
\* ends without error and commits its other changes; the add-on names not
\* yet stored are inserted with status Not Snatched.
C27_AddOnMergeSkipsExisting ==
    [][\A r \in Jobs :
          (pass_reaches_commit(r) /\ stored_add_on_names(r) # {}) =>
              /\ \A name \in stored_add_on_names(r) :
                     {a \in additional_release' : a.release_name = name}
                         = {a \in additional_release : a.release_name = name}
              /\ ~integrity_error(additional_release, job[r].pending.new_adds)
              /\ game'[current(r)].needs_release_check = FALSE
              /\ game'[current(r)].release_name = job[r].pending.row.release_name
              /\ \A name \in add_on_names_found(r) \ stored_add_on_names(r) :
                     \E a \in additional_release' :
                         a.release_name = name /\ a.status = "Not Snatched"
      ]_vars

\* The names of the catalogue that carry one of the add-on keywords as a
\* token.
AddOnKeywords == {"UPDATE", "DLC", "PATCH", "CRACKFIX", "FIX", "TRAINER"}
KeywordNames ==
    {clean_name_of(Catalog[i].release) : i \in
        {j \in 1..Len(Catalog) : has_keyword(AddOnKeywords, clean_name_of(Catalog[j].release))}}

\* C28: a release name with one of the tokens UPDATE, DLC, PATCH, CRACKFIX,
\* FIX, TRAINER, also one whose only such token is FIX, is never ranked as
\* a base-game candidate: no pass holds it among its candidates and it is
\* never a primary release or an alternative.
C28_AddOnKeywordNeverBaseGame ==
    /\ \A r \in Jobs : job[r].pc = "staged" =>
          \A data \in RowsOf(ScanTable[<<current(r), job[r].pending.feed>>].base_game_candidates) :
              data.release_name \notin KeywordNames
    /\ \A g \in Games : exists(g) =>
          /\ game[g].release_name \notin KeywordNames
          /\ alternative_names(alternative_release, g) \cap KeywordNames = {}

\* The add-on names of the catalogue that carry a non-PC platform marker.
PlatformAddOnNames ==
    {name \in KeywordNames : has_keyword(PLATFORM_KEYWORDS, name)}

\* C29: an add-on release name with a non-PC platform marker (MACOS, LINUX,
\* NSW, PS4, PS5, XBOX, WII, NGC, PS2DVD) is rejected entirely: it is never
\* the name of an AdditionalRelease row, of a primary release or of an
\* alternative.
C29_PlatformAddOnRejected ==
    /\ \A a \in additional_release : a.release_name \notin PlatformAddOnNames
    /\ \A g \in Games : exists(g) =>
          /\ game[g].release_name \notin PlatformAddOnNames
          /\ alternative_names(alternative_release, g) \cap PlatformAddOnNames = {}

\* The type the keyword table gives a name: that of the first keyword, in
\* the order of the table, that is a token of the name.
table_hits(name) == SelectSeq(type_map, LAMBDA kv : Text[kv[1]] \in upper_words(Text[name]))
type_by_table(name) == type_of_hits(table_hits(name))

\* The names a committed pass of job r has classified as add-ons that carry
\* no platform marker.
pc_add_on_names(r) ==
    {name \in names_of(ScanTable[<<current(r), job[r].pending.feed>>].add_ons) :
        ~has_keyword(PLATFORM_KEYWORDS, name)}

\* C30: after a pass, every name it has classified as an add-on that has no
\* platform marker is an AdditionalRelease row whose type is that of the
\* first keyword of the table CRACKFIX, DLC, UPDATE, PATCH, FIX, TRAINER
\* among its tokens, wherever the token stands in the name.
C30_AddOnTypedByTable ==
    [][\A r \in Jobs :
          (pass_reaches_commit(r)
             /\ ~integrity_error(additional_release, job[r].pending.new_adds)) =>
              \A name \in pc_add_on_names(r) :
                  \E a \in additional_release' :
                      a.release_name = name /\ a.release_type = type_by_table(name)
      ]_vars

\* The names of the catalogue that carry a non-game medium token.
NoiseNames ==
    {clean_name_of(Catalog[i].release) : i \in
        {j \in 1..Len(Catalog) : has_keyword(MOVIE_KEYWORDS, clean_name_of(Catalog[j].release))}}

\* C31: a release name with a non-game medium token (BDRIP, BLURAY, HDTV,
\* X264, X265, DTSHD, DVDRIP) is never a primary release, an alternative or
\* an AdditionalRelease row, also when it has an add-on keyword as well.
C31_NoiseDiscarded ==
    /\ \A a \in additional_release : a.release_name \notin NoiseNames
    /\ \A g \in Games : exists(g) =>
          /\ game[g].release_name \notin NoiseNames
          /\ alternative_names(alternative_release, g) \cap NoiseNames = {}

\* A gathered entry is attributed to a known repack group: the group its
\* adapter reports, or the group its name ends with, is one of them.
repack_attributed(data) ==
    \/ str_upper(Text[data.source]) \in upper_labels(REPACK_GROUPS)
    \/ str_upper(last_segment(Text[clean_name_of(data.release)])) \in upper_labels(REPACK_GROUPS)
\* The tier the candidate made of the entry is to be ranked with.
tier_to_rank(data) == IF repack_attributed(data) THEN "Repack" ELSE data.type
\* The feeds with a base-game candidate ranked with another tier.
MistieredFeeds ==
    {p \in Games \X AllFeeds :
        \E data \in RowsOf(gather(details(p[1]).official_title, p[2])) :
            /\ ~is_add_on(data)
            /\ is_base_game_candidate(details(p[1]), data)
            /\ base_game_candidate(details(p[1]), data).type # tier_to_rank(data)}

\* C32: a base-game candidate of a known repack group (FITGIRL, DODI,
\* ELAMIGOS, KAOSKREW, MASQUERADE) is ranked with tier Repack whatever tier
\* its adapter gave it, and a candidate of any other group keeps the tier of
\* its adapter.
C32_RepackOverride ==
    \A r \in Jobs : job[r].pc = "staged" =>
        <<current(r), job[r].pending.feed>> \notin MistieredFeeds

(***************************************************************************)
(* Downloads and post-processing with the steps of the import told apart:  *)
(* the requests and the status poll come between the claim and the end of  *)
(* the import.                                                             *)
(***************************************************************************)
PostNext ==
    \/ \E g \in Games : add_game_confirm(g)
    \/ \E g \in Games : download(g)
    \/ \E g \in Games : activity_action(g)
    \/ update_download_statuses
    \/ update_download_statuses_raising
    \/ import_claim
    \/ import_finish
    \/ import_fail

PostSpec == Init /\ [][PostNext]_vars

C34_PollFailureChangesNothing ==
    [][update_download_statuses_raising => UNCHANGED store]_vars

\* A run has failed while a game with a download handle was tracked.
C34_Witness ==
    /\ job[PollJob].pending = <<"error">>
    /\ \E g \in Games : tracked(g) /\ game[g].status = "Snatched"

\* A game has a download in progress or completed.
has_download(row) ==
    /\ row.status \in {"Snatched", "Downloading", "Downloaded"}
    /\ row.torrent_hash # "None"

\* C35: the commit of a pass never moves a game with a download in progress
\* or completed (Snatched, Downloading, Downloaded, with its handle) to a
\* cracked status; this holds for the passes of the library scan, which
\* takes the Downloaded games too.
C35_PassKeepsDownloads ==
    [][\A r \in Jobs :
          (pass_reaches_commit(r) /\ has_download(game[current(r)])) =>
              game'[current(r)].status \notin {"Cracked (Scene)", "Cracked (P2P)"}
      ]_vars

\* C36: a run of update_download_statuses does not change the status of a
\* game that another job has claimed, Importing or Snatching; an Importing
\* game whose torrent is complete is not set back to Downloaded while its
\* import runs.
C36_ClaimMarkersRespected ==
    [][update_download_statuses =>
          \A g \in Games :
              (exists(g) /\ game[g].status \in {"Importing", "Snatching"}) =>
                  game'[g].status = game[g].status
      ]_vars

\* C37: the primary release name of a game is never the release name of one
\* of its AlternativeRelease rows, after passes that rebuild the rows and
\* after passes that append to those of an Imported game.
C37_PrimaryNotAlternative ==
    \A g \in Games :
        (exists(g) /\ game[g].release_name # "None") =>
            game[g].release_name \notin alternative_names(alternative_release, g)

(***************************************************************************)
(* The release sweep over the hours: games are added and sent to           *)
(* Monitoring by a queue worker that finds nothing, the sweep runs between *)
(* the requests, and its passes find nothing, find an update, or raise.    *)
(***************************************************************************)
TickIdle == AllIdle /\ job[TickJob].pc = "idle"

ThrottleNext ==
    \/ TickIdle /\ \E g \in Games : add_game_confirm(g)
    \/ TickIdle /\ queue_query(1)
    \/ queue_claim(1)
    \/ pass_begin(1)
    \/ pass_no_results(1)
    \/ TickIdle /\ time_passes
    \/ TickIdle /\ check_for_releases_run
    \/ pass_begin(TickJob)
    \/ pass_no_results(TickJob)
    \/ pass_stage_of(TickJob, {{3}})
    \/ pass_commit(TickJob)
    \/ pass_fail(TickJob)
    \/ check_for_releases_end

ThrottleSpec == Init /\ [][ThrottleNext]_vars

\* The sweep starts in this step, and it is over after this step.
sweep_starts == job[TickJob].pc = "idle" /\ check_for_releases_run
sweep_is_over == job'[TickJob].pc = "idle" /\ (sweep_starts \/ job[TickJob].pc # "idle")

\* C38: a sweep scans no Monitoring game whose release date is missing,
\* unparsable or in the future, every game released within the last 30
\* days, and a game released earlier only when there is no backlog
\* timestamp or more than 23 hours have passed since it; it scans all of
\* them before it is over, and the backlog timestamp is set to now on
\* exactly the sweeps that run the backlog check (which keeps two backlog
\* scans of a game more than 23 hours apart).
C38_BacklogThrottle ==
    [][/\ sweep_starts =>
            LET due == setting = <<>> \/ clock - setting[1] > 23
                listed == IF job'[TickJob].pc = "idle" THEN {}
                          ELSE {job'[TickJob].todo[i] : i \in 1..Len(job'[TickJob].todo)}
            IN  \A g \in monitored :
                    LET d == details(g).release_date
                    IN  g \in listed <=>
                          /\ d.kind = "date"
                          /\ d.day <= today
                          /\ (today - d.day <= 30 \/ due)
       /\ sweep_is_over =>
            /\ job[TickJob].pc # "idle" => job[TickJob].pc = "swept"
            /\ setting' = IF setting = <<>> \/ clock - setting[1] > 23
                          THEN <<clock>> ELSE setting
      ]_vars



(***************************************************************************)
(* The download request with its load and its commit told apart, next to   *)
(* the status poll and the delete action of the activity page.            *)
(***************************************************************************)
RequestNext ==
    \/ \E g \in Games : add_game_confirm(g)
    \/ \E g \in Games : download(g)
    \/ \E q \in Requests, g \in Games : download_load(q, g)
    \/ \E q \in Requests : download_commit(q)
    \/ \E g \in Games : activity_action(g)
    \/ update_download_statuses

RequestSpec == Init /\ [][RequestNext]_vars

\* C39: in every store state a game with status Snatched has a download
\* handle: the status is set to Snatched only together with a handle and the
\* handle is cleared only together with a status change away from Snatched.
C39_SnatchedHasHandle ==
    \A g \in Games : (exists(g) /\ game[g].status = "Snatched") => game[g].torrent_hash # "None"

(***************************************************************************)
(* The module-level title matcher applied to a title and itself, at the    *)
(* thresholds 0.7 (the default) and 0.8 (check_source_fitgirl).            *)
(***************************************************************************)
MatchNext ==
    \E game_title \in Titles, min_similarity \in {7, 8} : title_match(game_title, min_similarity)

MatchSpec == Init /\ [][MatchNext]_vars

\* C40: title similarity is reflexive: for every title with at least one
\* token the similarity of the title with itself is 1 and the matcher
\* accepts the pair at 0.7 and at 0.8, also when the title holds words of
\* the stoplist (a year 2022..2025, edition, ultimate, complete).
C40_SimilarityReflexive ==
    job[MatchJob].pending # <<>> =>
        LET checked == job[MatchJob].pending[1]
        IN  title_words(checked.game_title) # {} =>
               /\ checked.similarity.num = checked.similarity.den
               /\ checked.valid

=========================================================================
